---- MODULE Spec2Model ----
(***************************************************************************)
(* Model of the competing-llm backend: the mock LLM service                *)
(* (services/llm_mock.py), its HTTP/SSE wrappers (api/chat.py).            *)
(*                                                                         *)
(* Text is modelled as a sequence of one-character strings, so that        *)
(* slicing, padding, substring search and character-by-character           *)
(* streaming are computed as the code computes them.  The one non-ASCII    *)
(* character of the weather template is written "<deg>".  Probabilities    *)
(* and random.random() are in hundredths; delays are in milliseconds.      *)
(* Timestamps are not modelled.                                            *)
(***************************************************************************)
EXTENDS Integers, Sequences, FiniteSets, TLC

(***************************************************************************)
(* Bounds of the model (inputs are drawn from these small sets).           *)
(***************************************************************************)
\* longest list of model ids of a batch request
MaxBatch == 2

\* random.randint(min_len, max_len) is drawn from the DrawSpread + 1 lowest
\* and the DrawSpread + 1 highest values of the range
DrawSpread == 0

(***************************************************************************)
(* MockLLMConfig                                                           *)
(***************************************************************************)
RESPONSE_LENGTHS ==
  (1 :> <<30, 60>>) @@ (2 :> <<70, 100>>) @@ (3 :> <<50, 80>>) @@
  (4 :> <<40, 90>>) @@ (5 :> <<60, 120>>)

\* scale of random.random(): r is drawn from 0 .. RandScale - 1 and stands
\* for r / RandScale
RandScale == 100

ERROR_RATES ==
  [rate_limit |-> 5, timeout |-> 3, service_error |-> 2]

\* keys of ANSWER_TEMPLATES in insertion order (the order a dict is iterated)
TEMPLATE_KEYS ==
  << <<"h", "e", "l", "l", "o">>,
     <<"h", "e", "l", "p">>,
     <<"w", "e", "a", "t", "h", "e", "r">>,
     <<"c", "o", "d", "e">>,
     <<"d", "e", "f", "a", "u", "l", "t">> >>

\* the replacement fields each template names
TemplateFields(i) ==
  CASE i = 1 -> {"llm_id"}
    [] i = 2 -> {"llm_id"}
    [] i = 3 -> {"llm_id"}
    [] i = 4 -> {"llm_id", "name"}
    [] i = 5 -> {"llm_id", "prompt"}

\* ANSWER_TEMPLATES[TEMPLATE_KEYS[i]] with its fields replaced from args
ANSWER_TEMPLATES(i, args) ==
  CASE i = 1 ->
         <<"H", "e", "l", "l", "o", "!", " ", "I", "'", "m", " ", "L", "L", "M", " ">> \o
         args.llm_id \o
         <<",", " ", "r", "e", "a", "d", "y", " ", "t", "o", " ", "a", "s", "s", "i", "s", "t", " ", "y", "o", "u", " ", "w", "i", "t", "h", " ", "y", "o", "u", "r", " ", "q", "u", "e", "s", "t", "i", "o", "n", "s", ".">>
    [] i = 2 ->
         <<"A", "s", " ", "L", "L", "M", " ">> \o
         args.llm_id \o
         <<",", " ", "I", " ", "c", "a", "n", " ", "h", "e", "l", "p", " ", "y", "o", "u", " ", "w", "i", "t", "h", " ", "v", "a", "r", "i", "o", "u", "s", " ", "t", "a", "s", "k", "s", " ", "i", "n", "c", "l", "u", "d", "i", "n", "g", " ", "a", "n", "s", "w", "e", "r", "i", "n", "g", " ", "q", "u", "e", "s", "t", "i", "o", "n", "s", ",", " ", "p", "r", "o", "v", "i", "d", "i", "n", "g", " ", "i", "n", "f", "o", "r", "m", "a", "t", "i", "o", "n", ",", " ", "a", "n", "d", " ", "a", "s", "s", "i", "s", "t", "i", "n", "g", " ", "w", "i", "t", "h", " ", "p", "r", "o", "b", "l", "e", "m", "-", "s", "o", "l", "v", "i", "n", "g", ".">>
    [] i = 3 ->
         <<"L", "L", "M", " ">> \o
         args.llm_id \o
         <<" ", "r", "e", "p", "o", "r", "t", "s", ":", " ", "T", "h", "e", " ", "w", "e", "a", "t", "h", "e", "r", " ", "t", "o", "d", "a", "y", " ", "i", "s", " ", "s", "u", "n", "n", "y", " ", "w", "i", "t", "h", " ", "a", " ", "t", "e", "m", "p", "e", "r", "a", "t", "u", "r", "e", " ", "o", "f", " ", "7", "2", "<deg>", "F", ".", " ", "P", "e", "r", "f", "e", "c", "t", " ", "c", "o", "n", "d", "i", "t", "i", "o", "n", "s", " ", "f", "o", "r", " ", "o", "u", "t", "d", "o", "o", "r", " ", "a", "c", "t", "i", "v", "i", "t", "i", "e", "s", "!">>
    [] i = 4 ->
         <<"H", "e", "r", "e", "'", "s", " ", "a", " ", "P", "y", "t", "h", "o", "n", " ", "f", "u", "n", "c", "t", "i", "o", "n", " ", "f", "r", "o", "m", " ", "L", "L", "M", " ">> \o
         args.llm_id \o
         <<":", "\n", "\n", "d", "e", "f", " ", "g", "r", "e", "e", "t", "(", "n", "a", "m", "e", ")", ":", "\n", " ", " ", " ", " ", "r", "e", "t", "u", "r", "n", " ", "f", "'", "H", "e", "l", "l", "o", ",", " ">> \o
         args.name \o
         <<"!", "'">>
    [] i = 5 ->
         <<"T", "h", "i", "s", " ", "i", "s", " ", "a", " ", "r", "e", "s", "p", "o", "n", "s", "e", " ", "f", "r", "o", "m", " ", "L", "L", "M", " ">> \o
         args.llm_id \o
         <<" ", "p", "r", "o", "v", "i", "d", "i", "n", "g", " ", "i", "n", "s", "i", "g", "h", "t", "s", " ", "o", "n", " ", "y", "o", "u", "r", " ", "q", "u", "e", "r", "y", ":", " ">> \o
         args.prompt

\* the text appended to a response that is shorter than its target length
Additional(id) ==
  <<" ", "T", "h", "i", "s", " ", "r", "e", "s", "p", "o", "n", "s", "e", " ", "f", "r", "o", "m", " ", "L", "L", "M", " ">> \o id \o
  <<" ", "i", "n", "c", "l", "u", "d", "e", "s", " ", "a", "d", "d", "i", "t", "i", "o", "n", "a", "l", " ", "d", "e", "t", "a", "i", "l", "s", " ", "t", "o", " ", "p", "r", "o", "v", "i", "d", "e", " ", "c", "o", "m", "p", "r", "e", "h", "e", "n", "s", "i", "v", "e", " ", "a", "s", "s", "i", "s", "t", "a", "n", "c", "e", ".">>

(***************************************************************************)
(* Python string operations on sequences of characters                     *)
(***************************************************************************)
Digit(d) ==
  CASE d = 0 -> "0" [] d = 1 -> "1" [] d = 2 -> "2" [] d = 3 -> "3"
    [] d = 4 -> "4" [] d = 5 -> "5" [] d = 6 -> "6" [] d = 7 -> "7"
    [] d = 8 -> "8" [] d = 9 -> "9"

\* str(n) of a natural number
RECURSIVE Str(_)
Str(n) ==
  IF n < 10 THEN <<Digit(n)>> ELSE Str(n \div 10) \o <<Digit(n % 10)>>

\* s[:n] for n >= 0
Prefix(s, n) ==
  SubSeq(s, 1, IF n < Len(s) THEN n ELSE Len(s))

IsSpace(c) ==
  c \in {" ", "\n", "\t", "\r"}

RECURSIVE LStrip(_)
LStrip(s) ==
  IF s # <<>> /\ IsSpace(Head(s)) THEN LStrip(Tail(s)) ELSE s

RECURSIVE RStrip(_)
RStrip(s) ==
  IF s # <<>> /\ IsSpace(s[Len(s)]) THEN RStrip(SubSeq(s, 1, Len(s) - 1)) ELSE s

\* s.strip()
Strip(s) ==
  RStrip(LStrip(s))

LowerChar(c) ==
  CASE c = "A" -> "a" [] c = "B" -> "b" [] c = "C" -> "c" [] c = "D" -> "d"
    [] c = "E" -> "e" [] c = "F" -> "f" [] c = "G" -> "g" [] c = "H" -> "h"
    [] c = "I" -> "i" [] c = "J" -> "j" [] c = "K" -> "k" [] c = "L" -> "l"
    [] c = "M" -> "m" [] c = "N" -> "n" [] c = "O" -> "o" [] c = "P" -> "p"
    [] c = "Q" -> "q" [] c = "R" -> "r" [] c = "S" -> "s" [] c = "T" -> "t"
    [] c = "U" -> "u" [] c = "V" -> "v" [] c = "W" -> "w" [] c = "X" -> "x"
    [] c = "Y" -> "y" [] c = "Z" -> "z" [] OTHER -> c

\* s.lower()
Lower(s) ==
  [i \in 1..Len(s) |-> LowerChar(s[i])]

\* key in s
Contains(s, key) ==
  \E i \in 0..(Len(s) - Len(key)) : SubSeq(s, i + 1, i + Len(key)) = key

(***************************************************************************)
(* Exceptions: a type and str(e)                                           *)
(***************************************************************************)
Exc(type, message) ==
  [type |-> type, message |-> message]

NoExc ==
  Exc("none", <<>>)

SimulatedErrors ==
  {"RateLimitError", "LLMTimeoutError", "LLMServiceError"}

(***************************************************************************)
(* _simulate_errors: the exception raised for the draw rand, or NoExc      *)
(***************************************************************************)
\* a draw that compares rand with each rate on its own, not with the
\* cumulative sums
simulate_errors_Independent(rates, rand) ==
  IF rand < rates.rate_limit
    THEN Exc("RateLimitError", <<"Rate limit exceeded. Please try again later.">>)
  ELSE IF rand < rates.timeout
    THEN Exc("LLMTimeoutError",
             <<"Request timed out. The LLM service is taking too long to respond.">>)
  ELSE IF rand < rates.service_error
    THEN Exc("LLMServiceError",
             <<"LLM service is temporarily unavailable. Please try again later.">>)
  ELSE NoExc

\* the exception raised for the draw rand of random.random(), or NoExc
simulate_errors(rates, rand) ==
  IF rand < rates.rate_limit
    THEN Exc("RateLimitError", <<"Rate limit exceeded. Please try again later.">>)
  ELSE IF rand < rates.rate_limit + rates.timeout
    THEN Exc("LLMTimeoutError",
             <<"Request timed out. The LLM service is taking too long to respond.">>)
  ELSE IF rand < rates.rate_limit + rates.timeout + rates.service_error
    THEN Exc("LLMServiceError",
             <<"LLM service is temporarily unavailable. Please try again later.">>)
  ELSE NoExc

\* the values random.random() is drawn from: the lowest and the highest, and
\* the two values on either side of the upper end of each band
RandDraws(cfg) ==
  LET ends == {cfg.rate_limit, cfg.rate_limit + cfg.timeout,
               cfg.rate_limit + cfg.timeout + cfg.service_error}
  IN  {r \in 0..(RandScale - 1) :
         r \in {0, RandScale - 1} \/ r \in ends \/ r + 1 \in ends}

(***************************************************************************)
(* _generate_response                                                      *)
(***************************************************************************)
\* the first key of ANSWER_TEMPLATES contained in prompt_lower, else "default"
RECURSIVE FindTemplate(_, _)
FindTemplate(prompt_lower, i) ==
  IF i > Len(TEMPLATE_KEYS) THEN Len(TEMPLATE_KEYS)
  ELSE IF Contains(prompt_lower, TEMPLATE_KEYS[i]) THEN i
  ELSE FindTemplate(prompt_lower, i + 1)

\* the arguments passed to str.format
FormatArgs(llm_id, prompt) ==
  [llm_id |-> Str(llm_id),
   prompt |-> IF Len(prompt) > 50 THEN Prefix(prompt, 50) \o <<".", ".", ".">>
              ELSE prompt]

\* str.format raises KeyError for a replacement field without an argument
FormatRaises(i) ==
  TemplateFields(i) \ {"llm_id", "prompt"} # {}

\* the values random.randint(min_len, max_len) is drawn from
TargetDraws(llm_id) ==
  LET min_len == RESPONSE_LENGTHS[llm_id][1]
      max_len == RESPONSE_LENGTHS[llm_id][2]
  IN  {t \in min_len..max_len : t <= min_len + DrawSpread \/ t >= max_len - DrawSpread}

\* an adjustment that appends the whole additional text to a short response
AdjustLength_PadWhole(base_response, llm_id, target_length) ==
  IF Len(base_response) < target_length
    THEN base_response \o Additional(Str(llm_id))
  ELSE IF Len(base_response) > target_length
    THEN Prefix(base_response, target_length)
  ELSE base_response

\* pad with the additional text or truncate to target_length
AdjustLength(base_response, llm_id, target_length) ==
  IF Len(base_response) < target_length
    THEN base_response \o
         Prefix(Additional(Str(llm_id)), target_length - Len(base_response))
  ELSE IF Len(base_response) > target_length
    THEN Prefix(base_response, target_length)
  ELSE base_response

\* [exc, text]: the exception raised, or the response text
generate_response(llm_id, prompt, target_length) ==
  LET prompt_lower == Strip(Lower(prompt))
      template_key == FindTemplate(prompt_lower, 1)
      args == FormatArgs(llm_id, prompt) @@ [name |-> <<>>]
  IN  IF FormatRaises(template_key)
        THEN [exc |-> Exc("KeyError", <<"'name'">>), text |-> <<>>]
        ELSE [exc |-> NoExc,
              text |-> AdjustLength(ANSWER_TEMPLATES(template_key, args),
                                    llm_id, target_length)]

(***************************************************************************)
(* Inputs                                                                  *)
(***************************************************************************)
\* a delay of None (the JSON null the request models accept)
NoneDelay == -1

DefaultDelay == 50

\* delays of completion requests
Delays ==
  {DefaultDelay, 1000, NoneDelay}

\* delays of streaming requests
StreamDelays ==
  {DefaultDelay, NoneDelay}

Prompts ==
  { <<"h", "e", "l", "l", "o">>, <<"h", "i">>, <<"c", "o", "d", "e">>,
    <<" ", "H", "e", "l", "l", "o", " ">>, <<>>, <<" ">> }

\* model ids of single-model requests: the configured ones and two others
LlmIdInputs ==
  {0, 1, 2, 3, 4, 5, 99}

\* prompts of batch requests
BatchPrompts ==
  { <<"h", "e", "l", "l", "o">>, <<"c", "o", "d", "e">>, <<>> }

\* model ids of batch requests
BatchIdInputs ==
  {1, 2, 3, 99}

RECURSIVE SeqsUpTo(_, _)
SeqsUpTo(S, n) ==
  IF n = 0 THEN {<<>>}
  ELSE LET shorter == SeqsUpTo(S, n - 1)
       IN  shorter \cup {Append(s, x) : s \in {t \in shorter : Len(t) = n - 1}, x \in S}

BatchInputs ==
  SeqsUpTo(BatchIdInputs, MaxBatch)

DefaultConfig ==
  ERROR_RATES

\* the ERROR_RATES of the config objects a direct caller passes
Configs ==
  { DefaultConfig,
    [rate_limit |-> 100, timeout |-> 0, service_error |-> 0],
    [rate_limit |-> 0, timeout |-> 0, service_error |-> 0] }

(***************************************************************************)
(* Request validation of the v1 request models (models/llm.py)             *)
(***************************************************************************)
\* a prompt field with the length limits only, without validate_prompt
PromptValid_LengthOnly(p) ==
  Len(p) >= 1 /\ Len(p) <= 1000

\* Field(min_length=1, max_length=1000) and validate_prompt
PromptValid(p) ==
  Len(p) >= 1 /\ Len(p) <= 1000 /\ Strip(p) # <<>>

\* Field(gt=0, le=1.0) on an optional float
DelayValid(d) ==
  d = NoneDelay \/ (d > 0 /\ d <= 1000)

\* ChatRequest
ChatRequestValid(id, p, d) ==
  PromptValid(p) /\ id >= 1 /\ id <= 5 /\ DelayValid(d)

\* BatchChatRequest.validate_llm_ids with Field(min_items=1, max_items=5)
LlmIdsValid(ids) ==
  /\ Len(ids) >= 1 /\ Len(ids) <= 5
  /\ \A i \in 1..Len(ids) : ids[i] >= 1 /\ ids[i] <= 5
  /\ Cardinality({ids[i] : i \in 1..Len(ids)}) = Len(ids)

\* BatchChatRequest
BatchChatRequestValid(ids, p, d) ==
  PromptValid(p) /\ LlmIdsValid(ids) /\ DelayValid(d)

\* the registry entries as the module defines them when it is loaded, with
\* the fields the live path reads
AVAILABLE_LLMS ==
  << [llm_id |-> "gpt-5-nano", api_provider |-> "Azure OpenAI",
      reasoning_model |-> TRUE],
     [llm_id |-> "gpt-4.1", api_provider |-> "Azure OpenAI",
      reasoning_model |-> FALSE],
     [llm_id |-> "x-ai/grok-4.1-fast:free", api_provider |-> "OpenRouter",
      reasoning_model |-> TRUE],
     [llm_id |-> "z-ai/glm-4.5-air:free", api_provider |-> "OpenRouter",
      reasoning_model |-> TRUE] >>

(***************************************************************************)
(* State                                                                   *)
(***************************************************************************)
VARIABLES
  endpoint,     \* the operation in progress, "idle" before the request
  llm_ids,      \* the requested model ids (one id for a single-model call)
  prompt,       \* the prompt passed to the service
  delay,        \* the delay passed to the service
  rates,        \* config.ERROR_RATES of the call
  status,       \* "idle", "streaming", "gathering", "done"
  http_status,  \* status code of the HTTP response, 0 when none
  gens,         \* one mock_llm_stream generator per requested id
  cur,          \* position of the stream batch_mock_llm_stream is draining
  chunks,       \* the chunks the service generator has yielded
  events,       \* the SSE events the API generator has yielded
  raised,       \* the exception propagated to a direct caller
  tasks,        \* one mock_llm_completion task per id of a gathered batch
  done_order,   \* the positions of the tasks in the order they finished
  result,       \* the list of results returned by a batch completion
  detail,       \* the detail of the HTTPException the handler raised
  llms,         \* the model selections of a live request
  calls,        \* one get_chat_completion call per selection of a live request
  clients,      \* the provider clients created so far
  registry,     \* the list AVAILABLE_LLMS of the registry module, as it stands
  probe,        \* a function under examination: its arguments and its outcome
  peers         \* the streaming requests that are processed side by side

reqVars == <<endpoint, llm_ids, prompt, delay, rates>>

streamVars == <<gens, cur, chunks, events>>

compVars == <<tasks, done_order, result, detail>>

liveVars == <<llms, calls, clients, registry>>

vars == <<endpoint, llm_ids, prompt, delay, rates, status, http_status,
          gens, cur, chunks, events, raised, tasks, done_order, result, detail,
          llms, calls, clients, registry, probe, peers>>

Init ==
  /\ endpoint = "idle"
  /\ llm_ids = <<>>
  /\ prompt = <<>>
  /\ delay = DefaultDelay
  /\ rates = DefaultConfig
  /\ status = "idle"
  /\ http_status = 0
  /\ gens = <<>>
  /\ cur = 0
  /\ chunks = <<>>
  /\ events = <<>>
  /\ raised = NoExc
  /\ tasks = <<>>
  /\ done_order = <<>>
  /\ result = <<>>
  /\ detail = <<>>
  /\ llms = <<>>
  /\ calls = <<>>
  /\ clients = <<>>
  /\ registry = AVAILABLE_LLMS
  /\ probe = [fn |-> "none", rates |-> DefaultConfig, rand |-> 0, out |-> NoExc]
  /\ peers = <<>>

(***************************************************************************)
(* mock_llm_stream                                                         *)
(***************************************************************************)
\* a generator object that has not run yet
NewGen(id) ==
  [llm_id |-> id, pc |-> "created", response_text |-> <<>>, pos |-> 0,
   chunk_id |-> 0, exc |-> NoExc, rolled |-> FALSE, generated |-> FALSE]

\* the input validation at the head of mock_llm_stream and of
\* mock_llm_completion: the ValueError raised, or NoExc
InputError(id, p) ==
  IF p = <<>> \/ Strip(p) = <<>>
    THEN Exc("ValueError", <<"Prompt cannot be empty">>)
  ELSE IF id \notin DOMAIN RESPONSE_LENGTHS
    THEN Exc("ValueError",
             <<"Invalid LLM ID: ">> \o Str(id) \o
             <<". Must be one of [1, 2, 3, 4, 5]">>)
  ELSE NoExc

\* mock_llm_stream from the error draw to its first suspension: the
\* exception raised (simulated error, response generation, the delay
\* arithmetic of the first iteration) or the response text; rolled and
\* generated tell whether random.random() was drawn for the error and whether
\* _generate_response was called
StreamBody(id, p, d, cfg, rand, target) ==
  IF simulate_errors(cfg, rand) # NoExc
    THEN [exc |-> simulate_errors(cfg, rand), text |-> <<>>,
          rolled |-> TRUE, generated |-> FALSE]
  ELSE LET g == generate_response(id, p, target)
       IN  IF g.exc # NoExc
             THEN [exc |-> g.exc, text |-> <<>>, rolled |-> TRUE, generated |-> TRUE]
           ELSE IF g.text # <<>> /\ d = NoneDelay
             THEN [exc |-> Exc("TypeError", <<"unsupported operand type(s)">>),
                   text |-> <<>>, rolled |-> TRUE, generated |-> TRUE]
           ELSE [exc |-> NoExc, text |-> g.text, rolled |-> TRUE, generated |-> TRUE]

\* an entry that draws the simulated error before it validates its inputs
StreamEntry_DrawFirst(id, p, d, cfg, rand, target) ==
  IF simulate_errors(cfg, rand) # NoExc
    THEN StreamBody(id, p, d, cfg, rand, target)
  ELSE IF InputError(id, p) # NoExc
    THEN [exc |-> InputError(id, p), text |-> <<>>, rolled |-> TRUE,
          generated |-> FALSE]
  ELSE StreamBody(id, p, d, cfg, rand, target)

\* the code from the entry of mock_llm_stream to its first suspension
StreamEntry(id, p, d, cfg, rand, target) ==
  IF InputError(id, p) # NoExc
    THEN [exc |-> InputError(id, p), text |-> <<>>, rolled |-> FALSE,
          generated |-> FALSE]
  ELSE StreamBody(id, p, d, cfg, rand, target)

\* a loop body that marks every chunk as complete
TextChunk_Complete(g) ==
  [chunk_id |-> g.chunk_id + 1, text |-> <<g.response_text[g.pos + 1]>>,
   llm_id |-> g.llm_id, is_complete |-> TRUE]

\* a loop body that yields the chunk before it increments chunk_id
TextChunk_ZeroBased(g) ==
  [chunk_id |-> g.chunk_id, text |-> <<g.response_text[g.pos + 1]>>,
   llm_id |-> g.llm_id, is_complete |-> FALSE]

\* the chunk the loop body yields: chunk_id += 1, then the next character
TextChunk(g) ==
  [chunk_id |-> g.chunk_id + 1, text |-> <<g.response_text[g.pos + 1]>>,
   llm_id |-> g.llm_id, is_complete |-> FALSE]

\* a completion signal that is not marked complete
CompletionChunk_NotComplete(g) ==
  [chunk_id |-> g.chunk_id + 1, text |-> <<>>, llm_id |-> g.llm_id,
   is_complete |-> FALSE]

\* a completion signal that repeats the last character
CompletionChunk_WithText(g) ==
  [chunk_id |-> g.chunk_id + 1, text |-> <<g.response_text[g.pos]>>,
   llm_id |-> g.llm_id, is_complete |-> TRUE]

\* the completion signal
CompletionChunk(g) ==
  [chunk_id |-> g.chunk_id + 1, text |-> <<>>, llm_id |-> g.llm_id,
   is_complete |-> TRUE]

(***************************************************************************)
(* The consumers of a stream: a direct caller, batch_mock_llm_stream, and  *)
(* the SSE generators _stream_single_llm and _stream_batch_llms            *)
(***************************************************************************)
IsBatch ==
  endpoint \in {"stream_batch", "batch_mock_llm_stream"}

IsHttp ==
  endpoint \in {"stream", "stream_batch"}

\* the error event of _stream_single_llm for the exception exc
SingleErrorEvent(exc, id) ==
  [event |-> "error",
   data |-> [error |-> CASE exc.type = "RateLimitError" -> "rate_limit"
                         [] exc.type = "LLMTimeoutError" -> "timeout"
                         [] exc.type = "LLMServiceError" -> "service_error"
                         [] OTHER -> "internal_error",
             message |-> IF exc.type \in SimulatedErrors THEN exc.message
                         ELSE <<"An unexpected error occurred">>,
             llm_id |-> id]]

\* the error event of _stream_batch_llms for the exception exc
BatchErrorEvent(exc) ==
  [event |-> "error",
   data |-> [error |-> "batch_error", message |-> exc.message]]

ChunkEvent(chunk) ==
  [event |-> "chunk", data |-> chunk]

\* a tag that names the first requested model on every chunk
Tagged_FirstRequested(chunk, id) ==
  [chunk_id |-> chunk.chunk_id, text |-> chunk.text, llm_id |-> chunk.llm_id,
   is_complete |-> chunk.is_complete, source_llm |-> llm_ids[1]]

\* batch_mock_llm_stream sets chunk["source_llm"] before it yields the chunk
Tagged(chunk, id) ==
  [chunk_id |-> chunk.chunk_id, text |-> chunk.text, llm_id |-> chunk.llm_id,
   is_complete |-> chunk.is_complete, source_llm |-> id]

\* the stream at position i yields chunk to its consumer
Yield(i, chunk) ==
  LET out == IF IsBatch THEN Tagged(chunk, llm_ids[i]) ELSE chunk
  IN  /\ chunks' = Append(chunks, out)
      /\ events' = IF IsHttp THEN Append(events, ChunkEvent(out)) ELSE events
      /\ UNCHANGED <<raised, status, cur>>

\* an exception of the stream at position i that is reported and skipped:
\* the batch loop goes on with the next stream
Raise_Continue(i, exc) ==
  /\ events' = IF endpoint = "stream"
                 THEN Append(events, SingleErrorEvent(exc, llm_ids[i]))
               ELSE IF endpoint = "stream_batch"
                 THEN Append(events, BatchErrorEvent(exc))
               ELSE events
  /\ raised' = IF IsHttp THEN raised ELSE exc
  /\ cur' = IF IsBatch /\ i > 0 THEN i + 1 ELSE cur
  /\ status' = IF ~IsBatch \/ i = Len(llm_ids) THEN "done" ELSE status
  /\ UNCHANGED chunks

\* an exception leaves the stream at position i: it passes through
\* batch_mock_llm_stream and is caught by the SSE generator, or reaches the
\* direct caller
Raise(i, exc) ==
  /\ events' = IF endpoint = "stream"
                 THEN Append(events, SingleErrorEvent(exc, llm_ids[i]))
               ELSE IF endpoint = "stream_batch"
                 THEN Append(events, BatchErrorEvent(exc))
               ELSE events
  /\ raised' = IF IsHttp THEN raised ELSE exc
  /\ status' = "done"
  /\ UNCHANGED <<chunks, cur>>

\* the stream at position i is exhausted: the batch loop moves to the next
\* stream, and the consumer is finished after the last one
Exhausted(i) ==
  /\ cur' = IF IsBatch THEN i + 1 ELSE cur
  /\ status' = IF ~IsBatch \/ i = Len(llm_ids) THEN "done" ELSE status
  /\ UNCHANGED <<chunks, events, raised>>

\* a consumer that advances whichever stream is ready
Draining_Any(i) ==
  /\ status = "streaming"
  /\ i \in 1..Len(gens)

\* the stream the consumer is iterating
Draining(i) ==
  /\ status = "streaming"
  /\ i \in 1..Len(gens)
  /\ IsBatch => cur = i

\* first __anext__ of the stream at position i
StreamStart(i) ==
  /\ Draining(i)
  /\ gens[i].pc = "created"
  /\ \E rand \in RandDraws(rates) :
     \E target \in (IF llm_ids[i] \in DOMAIN RESPONSE_LENGTHS
                      THEN TargetDraws(llm_ids[i]) ELSE {0}) :
        LET r == StreamEntry(llm_ids[i], prompt, delay, rates, rand, target)
        IN  IF r.exc # NoExc
              THEN /\ gens' = [gens EXCEPT ![i].pc = "raised", ![i].exc = r.exc,
                                           ![i].rolled = r.rolled,
                                           ![i].generated = r.generated]
                   /\ Raise(i, r.exc)
              ELSE /\ gens' = [gens EXCEPT ![i].pc = IF r.text = <<>> THEN "final"
                                                     ELSE "sleep",
                                           ![i].response_text = r.text,
                                           ![i].rolled = r.rolled,
                                           ![i].generated = r.generated]
                   /\ UNCHANGED <<chunks, events, raised, status, cur>>
  /\ UNCHANGED <<reqVars, http_status, compVars>>
  /\ UNCHANGED <<liveVars, probe, peers>>

\* a loop body that yields the character at hand without moving on to the
\* next one
StreamChunk_NoAdvance(i) ==
  /\ Draining(i)
  /\ gens[i].pc = "sleep"
  /\ LET g == gens[i]
     IN  /\ Yield(i, TextChunk(g))
         /\ gens' = [gens EXCEPT ![i].chunk_id = g.chunk_id + 1]
  /\ UNCHANGED <<reqVars, http_status, compVars>>
  /\ UNCHANGED <<liveVars, probe, peers>>

\* a loop body that draws the simulated error again before every chunk
StreamChunk_ErrorInLoop(i) ==
  /\ Draining(i)
  /\ gens[i].pc = "sleep"
  /\ \E rand \in RandDraws(rates) :
       LET g == gens[i]
       IN  IF simulate_errors(rates, rand) # NoExc
             THEN /\ gens' = [gens EXCEPT ![i].pc = "raised",
                                          ![i].exc = simulate_errors(rates, rand)]
                  /\ Raise(i, simulate_errors(rates, rand))
           ELSE /\ Yield(i, TextChunk(g))
                /\ gens' = [gens EXCEPT ![i].chunk_id = g.chunk_id + 1,
                                        ![i].pos = g.pos + 1,
                                        ![i].pc = IF g.pos + 1 < Len(g.response_text)
                                                    THEN "sleep" ELSE "final"]
  /\ UNCHANGED <<reqVars, http_status, compVars>>
  /\ UNCHANGED <<liveVars, probe, peers>>

\* asyncio.sleep returns in the loop body: the next chunk is yielded, the
\* consumer asks for the next one and the stream sleeps again or leaves the loop
StreamChunk(i) ==
  /\ Draining(i)
  /\ gens[i].pc = "sleep"
  /\ LET g == gens[i]
     IN  /\ Yield(i, TextChunk(g))
         /\ gens' = [gens EXCEPT ![i].chunk_id = g.chunk_id + 1,
                                 ![i].pos = g.pos + 1,
                                 ![i].pc = IF g.pos + 1 < Len(g.response_text)
                                             THEN "sleep" ELSE "final"]
  /\ UNCHANGED <<reqVars, http_status, compVars>>
  /\ UNCHANGED <<liveVars, probe, peers>>

\* the completion signal is yielded
StreamFinal(i) ==
  /\ Draining(i)
  /\ gens[i].pc = "final"
  /\ Yield(i, CompletionChunk(gens[i]))
  /\ gens' = [gens EXCEPT ![i].pc = "completed"]
  /\ UNCHANGED <<reqVars, http_status, compVars>>
  /\ UNCHANGED <<liveVars, probe, peers>>

\* the __anext__ after the completion signal: StopAsyncIteration
StreamStop(i) ==
  /\ Draining(i)
  /\ gens[i].pc = "completed"
  /\ Exhausted(i)
  /\ gens' = [gens EXCEPT ![i].pc = "exhausted"]
  /\ UNCHANGED <<reqVars, http_status, compVars>>
  /\ UNCHANGED <<liveVars, probe, peers>>

(***************************************************************************)
(* Single-model streaming: POST /api/chat/stream and direct iteration of   *)
(* mock_llm_stream                                                         *)
(***************************************************************************)
\* POST /api/chat/stream with body {prompt: p, llm_id: id, delay: d}; the
\* body is kept as it was sent when the request model refuses it
stream_chat(id, p, d) ==
  /\ status = "idle"
  /\ endpoint' = "stream"
  /\ llm_ids' = <<id>>
  /\ delay' = d
  /\ IF ChatRequestValid(id, p, d)
       THEN /\ prompt' = Strip(p)
            /\ gens' = <<NewGen(id)>>
            /\ status' = "streaming"
            /\ http_status' = 200
       ELSE /\ prompt' = p
            /\ status' = "done"
            /\ http_status' = 422
            /\ UNCHANGED gens
  /\ UNCHANGED <<rates, cur, chunks, events, raised, compVars>>
  /\ UNCHANGED <<liveVars, probe, peers>>

\* async for chunk in mock_llm_stream(id, p, d, config)
call_mock_llm_stream(id, p, d, cfg) ==
  /\ status = "idle"
  /\ endpoint' = "mock_llm_stream"
  /\ llm_ids' = <<id>>
  /\ prompt' = p
  /\ delay' = d
  /\ rates' = cfg
  /\ gens' = <<NewGen(id)>>
  /\ status' = "streaming"
  /\ UNCHANGED <<http_status, cur, chunks, events, raised, compVars>>
  /\ UNCHANGED <<liveVars, probe, peers>>

NextStream ==
  \/ \E id \in LlmIdInputs, p \in Prompts, d \in StreamDelays : stream_chat(id, p, d)
  \/ \E id \in LlmIdInputs, p \in Prompts, d \in StreamDelays, cfg \in Configs :
       call_mock_llm_stream(id, p, d, cfg)
  \/ \E i \in 1..Len(gens) : StreamStart(i)
  \/ \E i \in 1..Len(gens) : StreamChunk(i)
  \/ \E i \in 1..Len(gens) : StreamFinal(i)
  \/ \E i \in 1..Len(gens) : StreamStop(i)

SpecStream ==
  Init /\ [][NextStream]_vars

(***************************************************************************)
(* Batch streaming: POST /api/chat/stream/batch and direct iteration of    *)
(* batch_mock_llm_stream                                                   *)
(***************************************************************************)
\* POST /api/chat/stream/batch with body {prompt: p, llm_ids: ids, delay: d};
\* the body is kept as it was sent when the request model refuses it
stream_batch_chat(ids, p, d) ==
  /\ status = "idle"
  /\ endpoint' = "stream_batch"
  /\ llm_ids' = ids
  /\ delay' = d
  /\ IF BatchChatRequestValid(ids, p, d)
       THEN /\ prompt' = Strip(p)
            /\ status' = "streaming"
            /\ http_status' = 200
       ELSE /\ prompt' = p
            /\ status' = "done"
            /\ http_status' = 422
  /\ UNCHANGED <<rates, gens, cur, chunks, events, raised, compVars>>
  /\ UNCHANGED <<liveVars, probe, peers>>

\* async for chunk in batch_mock_llm_stream(ids, p, d)
call_batch_mock_llm_stream(ids, p, d) ==
  /\ status = "idle"
  /\ endpoint' = "batch_mock_llm_stream"
  /\ llm_ids' = ids
  /\ prompt' = p
  /\ delay' = d
  /\ status' = "streaming"
  /\ UNCHANGED <<rates, http_status, gens, cur, chunks, events, raised, compVars>>
  /\ UNCHANGED <<liveVars, probe, peers>>

\* a first step without the check of the list: over no id the loop ends at
\* once and the merged stream is exhausted without a chunk
BatchStart_NoEmptyCheck ==
  /\ status = "streaming"
  /\ IsBatch
  /\ cur = 0
  /\ gens' = [i \in 1..Len(llm_ids) |-> NewGen(llm_ids[i])]
  /\ cur' = 1
  /\ status' = IF llm_ids = <<>> THEN "done" ELSE status
  /\ UNCHANGED <<chunks, events, raised>>
  /\ UNCHANGED <<reqVars, http_status, compVars>>
  /\ UNCHANGED <<liveVars, probe, peers>>

\* first __anext__ of batch_mock_llm_stream: the empty list is refused, else
\* one stream per id is created (none has run yet) and the first is drained
BatchStart ==
  /\ status = "streaming"
  /\ IsBatch
  /\ cur = 0
  /\ IF llm_ids = <<>>
       THEN /\ Raise(0, Exc("ValueError", <<"At least one LLM ID must be provided">>))
            /\ UNCHANGED gens
       ELSE /\ gens' = [i \in 1..Len(llm_ids) |-> NewGen(llm_ids[i])]
            /\ cur' = 1
            /\ UNCHANGED <<chunks, events, raised, status>>
  /\ UNCHANGED <<reqVars, http_status, compVars>>
  /\ UNCHANGED <<liveVars, probe, peers>>

NextBatchStream ==
  \/ \E ids \in BatchInputs, p \in BatchPrompts, d \in StreamDelays :
       stream_batch_chat(ids, p, d)
  \/ \E ids \in BatchInputs, p \in BatchPrompts, d \in StreamDelays :
       call_batch_mock_llm_stream(ids, p, d)
  \/ BatchStart
  \/ \E i \in 1..Len(gens) : StreamStart(i)
  \/ \E i \in 1..Len(gens) : StreamChunk(i)
  \/ \E i \in 1..Len(gens) : StreamFinal(i)
  \/ \E i \in 1..Len(gens) : StreamStop(i)

SpecBatchStream ==
  Init /\ [][NextBatchStream]_vars

(***************************************************************************)
(* Batch completion: POST /api/chat/completion/batch and a direct call of  *)
(* batch_mock_llm_completion, which gathers one mock_llm_completion per id *)
(***************************************************************************)
\* the cap of the simulated thinking time
MaxProcessingTime == 2000

\* a thinking time that is slept in full, however long
CompletionBody_NoCap(id, p, d, cfg, rand, target) ==
  IF simulate_errors(cfg, rand) # NoExc
    THEN [exc |-> simulate_errors(cfg, rand), text |-> <<>>, sleep |-> 0,
          rolled |-> TRUE, generated |-> FALSE]
  ELSE LET g == generate_response(id, p, target)
           processing_time == (Len(g.text) * d) \div 2
       IN  IF g.exc # NoExc
             THEN [exc |-> g.exc, text |-> <<>>, sleep |-> 0,
                   rolled |-> TRUE, generated |-> TRUE]
           ELSE IF d = NoneDelay
             THEN [exc |-> Exc("TypeError", <<"unsupported operand type(s)">>),
                   text |-> <<>>, sleep |-> 0, rolled |-> TRUE, generated |-> TRUE]
           ELSE [exc |-> NoExc, text |-> g.text, sleep |-> processing_time,
                 rolled |-> TRUE, generated |-> TRUE]

\* mock_llm_completion from the error draw to its asyncio.sleep: the
\* exception raised, or the response text and the time slept
CompletionBody(id, p, d, cfg, rand, target) ==
  IF simulate_errors(cfg, rand) # NoExc
    THEN [exc |-> simulate_errors(cfg, rand), text |-> <<>>, sleep |-> 0,
          rolled |-> TRUE, generated |-> FALSE]
  ELSE LET g == generate_response(id, p, target)
           processing_time == (Len(g.text) * d) \div 2
       IN  IF g.exc # NoExc
             THEN [exc |-> g.exc, text |-> <<>>, sleep |-> 0,
                   rolled |-> TRUE, generated |-> TRUE]
           ELSE IF d = NoneDelay
             THEN [exc |-> Exc("TypeError", <<"unsupported operand type(s)">>),
                   text |-> <<>>, sleep |-> 0, rolled |-> TRUE, generated |-> TRUE]
           ELSE [exc |-> NoExc, text |-> g.text,
                 sleep |-> IF processing_time < MaxProcessingTime
                             THEN processing_time ELSE MaxProcessingTime,
                 rolled |-> TRUE, generated |-> TRUE]

\* the code of mock_llm_completion up to its asyncio.sleep
CompletionEntry(id, p, d, cfg, rand, target) ==
  IF InputError(id, p) # NoExc
    THEN [exc |-> InputError(id, p), text |-> <<>>, sleep |-> 0,
          rolled |-> FALSE, generated |-> FALSE]
  ELSE CompletionBody(id, p, d, cfg, rand, target)

\* a task gather has created and not yet run
NewTask(id) ==
  [llm_id |-> id, pc |-> "pending", exc |-> NoExc, content |-> <<>>, wake |-> 0,
   rolled |-> FALSE, generated |-> FALSE]

\* the dict mock_llm_completion returns
CompletionResult(t) ==
  [llm_id |-> t.llm_id, prompt |-> prompt, content |-> t.content]

\* a gather that lists the results in the order the tasks finished
GatherResults_AsCompleted ==
  [k \in 1..Len(done_order) |-> CompletionResult(tasks[done_order[k]])]

\* the list asyncio.gather returns: the results in the order of the tasks
GatherResults ==
  [i \in 1..Len(tasks) |-> CompletionResult(tasks[i])]

\* the exception gather propagates: that of the first task that raised
FirstRaised ==
  CHOOSE i \in 1..Len(tasks) :
    /\ tasks[i].pc = "raised"
    /\ \A j \in 1..(i - 1) : tasks[j].pc # "raised"

\* POST /api/chat/completion/batch with body {prompt: p, llm_ids: ids, delay: d}
batch_chat_completion(ids, p, d) ==
  /\ status = "idle"
  /\ IF BatchChatRequestValid(ids, p, d)
       THEN /\ endpoint' = "completion_batch"
            /\ llm_ids' = ids
            /\ prompt' = Strip(p)
            /\ delay' = d
            /\ status' = "called"
            /\ UNCHANGED http_status
       ELSE /\ endpoint' = "completion_batch"
            /\ status' = "done"
            /\ http_status' = 422
            /\ UNCHANGED <<llm_ids, prompt, delay>>
  /\ UNCHANGED <<rates, streamVars, raised, compVars>>
  /\ UNCHANGED <<liveVars, probe, peers>>

\* await batch_mock_llm_completion(ids, p, d)
call_batch_mock_llm_completion(ids, p, d) ==
  /\ status = "idle"
  /\ endpoint' = "batch_mock_llm_completion"
  /\ llm_ids' = ids
  /\ prompt' = p
  /\ delay' = d
  /\ status' = "called"
  /\ UNCHANGED <<rates, http_status, streamVars, raised, compVars>>
  /\ UNCHANGED <<liveVars, probe, peers>>

\* the handler's except clauses: ValueError gives 400 with str(e), any other
\* exception 500; a direct caller gets the exception itself
CompletionFails(exc) ==
  IF endpoint = "completion_batch"
    THEN /\ http_status' = IF exc.type = "ValueError" THEN 400 ELSE 500
         /\ detail' = IF exc.type = "ValueError" THEN exc.message
                      ELSE <<"Internal server error">>
         /\ UNCHANGED raised
    ELSE /\ raised' = exc
         /\ UNCHANGED <<http_status, detail>>

\* batch_mock_llm_completion up to its await: the empty list is refused,
\* else gather wraps one coroutine per id in a task
GatherStart ==
  /\ status = "called"
  /\ endpoint \in {"completion_batch", "batch_mock_llm_completion"}
  /\ IF llm_ids = <<>>
       THEN /\ CompletionFails(Exc("ValueError",
                                   <<"At least one LLM ID must be provided">>))
            /\ status' = "done"
            /\ UNCHANGED tasks
       ELSE /\ tasks' = [i \in 1..Len(llm_ids) |-> NewTask(llm_ids[i])]
            /\ status' = "gathering"
            /\ UNCHANGED <<http_status, detail, raised>>
  /\ UNCHANGED <<reqVars, streamVars, done_order, result>>
  /\ UNCHANGED <<liveVars, probe, peers>>

\* the event loop runs the first step of task i; the tasks start in the
\* order gather created them
TaskRun(i) ==
  /\ i \in 1..Len(tasks)
  /\ tasks[i].pc = "pending"
  /\ \A j \in 1..(i - 1) : tasks[j].pc # "pending"
  /\ \E rand \in RandDraws(rates) :
     \E target \in (IF llm_ids[i] \in DOMAIN RESPONSE_LENGTHS
                      THEN TargetDraws(llm_ids[i]) ELSE {0}) :
        LET r == CompletionEntry(llm_ids[i], prompt, delay, rates, rand, target)
        IN  IF r.exc # NoExc
              THEN /\ tasks' = [tasks EXCEPT ![i].pc = "raised", ![i].exc = r.exc,
                                             ![i].rolled = r.rolled,
                                             ![i].generated = r.generated]
                   /\ done_order' = Append(done_order, i)
              ELSE /\ tasks' = [tasks EXCEPT ![i].pc = "sleeping",
                                             ![i].content = r.text,
                                             ![i].wake = r.sleep,
                                             ![i].rolled = r.rolled,
                                             ![i].generated = r.generated]
                   /\ UNCHANGED done_order
  /\ UNCHANGED <<reqVars, status, http_status, streamVars, raised, result, detail>>
  /\ UNCHANGED <<liveVars, probe, peers>>

\* the sleep of task i elapses (no sleeping task is due earlier, and every
\* task has run its first step before the first timer fires): it returns
TaskWake(i) ==
  /\ i \in 1..Len(tasks)
  /\ tasks[i].pc = "sleeping"
  /\ \A j \in 1..Len(tasks) :
       /\ tasks[j].pc # "pending"
       /\ tasks[j].pc = "sleeping" => tasks[i].wake <= tasks[j].wake
  /\ tasks' = [tasks EXCEPT ![i].pc = "returned"]
  /\ done_order' = Append(done_order, i)
  /\ UNCHANGED <<reqVars, status, http_status, streamVars, raised, result, detail>>
  /\ UNCHANGED <<liveVars, probe, peers>>

\* gather propagates the first exception as soon as a task has raised (the
\* other tasks keep running) and batch_mock_llm_completion ends with it
GatherRaises ==
  /\ status = "gathering"
  /\ \A j \in 1..Len(tasks) : tasks[j].pc # "pending"
  /\ \E j \in 1..Len(tasks) : tasks[j].pc = "raised"
  /\ CompletionFails(tasks[FirstRaised].exc)
  /\ status' = "done"
  /\ UNCHANGED <<reqVars, streamVars, tasks, done_order, result>>
  /\ UNCHANGED <<liveVars, probe, peers>>

\* every task has returned: gather returns the list of results and the
\* handler answers with it
GatherReturns ==
  /\ status = "gathering"
  /\ \A j \in 1..Len(tasks) : tasks[j].pc = "returned"
  /\ result' = GatherResults
  /\ http_status' = IF endpoint = "completion_batch" THEN 200 ELSE http_status
  /\ status' = "done"
  /\ UNCHANGED <<reqVars, streamVars, raised, tasks, done_order, detail>>
  /\ UNCHANGED <<liveVars, probe, peers>>

NextBatchCompletion ==
  \/ \E ids \in BatchInputs, p \in BatchPrompts, d \in Delays :
       batch_chat_completion(ids, p, d)
  \/ \E ids \in BatchInputs, p \in BatchPrompts, d \in Delays :
       call_batch_mock_llm_completion(ids, p, d)
  \/ GatherStart
  \/ \E i \in 1..Len(tasks) : TaskRun(i)
  \/ \E i \in 1..Len(tasks) : TaskWake(i)
  \/ GatherRaises
  \/ GatherReturns

SpecBatchCompletion ==
  Init /\ [][NextBatchCompletion]_vars

(***************************************************************************)
(* Properties of the streams                                               *)
(***************************************************************************)
Positions ==
  1..Len(llm_ids)

Distinct(ids) ==
  Cardinality({ids[i] : i \in 1..Len(ids)}) = Len(ids)

\* the indexes of the chunks of the merged stream that come from model id
ChunksOf(id) ==
  {k \in 1..Len(chunks) : chunks[k].source_llm = id}

\* model id has delivered its terminal chunk on the merged stream
DeliveredTerminal(id) ==
  \E k \in ChunksOf(id) : chunks[k].is_complete

\* the stream at position i failed with a simulated error
FailedSimulated(i) ==
  i \in 1..Len(gens) /\ gens[i].pc = "raised" /\ gens[i].exc.type \in SimulatedErrors

\* the stream at position i has raised
Failed(i) ==
  i \in 1..Len(gens) /\ gens[i].pc = "raised"

BatchDone ==
  IsBatch /\ status = "done" /\ http_status # 422 /\ llm_ids # <<>> /\ Distinct(llm_ids)

\* C1: in a finished batch stream in which a model failed with a simulated
\* error, every other requested model that did not fail itself has delivered
\* its chunks up to and including its terminal chunk.
C1_SiblingsDeliverAll ==
  BatchDone =>
    \A i \in Positions : FailedSimulated(i) =>
      \A j \in Positions \ {i} : ~Failed(j) => DeliveredTerminal(llm_ids[j])

\* the error events of the batch event stream that are tagged with model id
ErrorEventsOf(id) ==
  {k \in 1..Len(events) : /\ events[k].event = "error"
                          /\ "llm_id" \in DOMAIN events[k].data
                          /\ events[k].data.llm_id = id}

\* C2: when a model's stream has raised (here: with a simulated error) in a
\* batch stream, the event stream holds exactly one error event tagged with
\* that model's id.
C2_OneTaggedErrorEvent ==
  (BatchDone /\ endpoint = "stream_batch") =>
    \A i \in Positions : FailedSimulated(i) =>
      Cardinality(ErrorEventsOf(llm_ids[i])) = 1

\* C3: the merged batch stream has ended only if every requested model has
\* produced its terminal chunk or has failed with an error (stated for the
\* runs whose only failures are simulated errors).
C3_EndsAfterAllModels ==
  (BatchDone /\ \A i \in Positions : Failed(i) => FailedSimulated(i)) =>
    \A j \in Positions : DeliveredTerminal(llm_ids[j]) \/ Failed(j)

\* the stream at position j has neither failed nor delivered its terminal chunk
Outstanding(j) ==
  j \in 1..Len(gens) /\ gens[j].pc \in {"created", "sleep", "final"}

\* C4: while a batch stream is in progress, every outstanding model's stream
\* can make its next step (a model sleeping in its loop holds back no other).
C4_NoSiblingDelay ==
  (IsBatch /\ status = "streaming") =>
    \A i \in 1..Len(gens) : gens[i].pc = "sleep" =>
      \A j \in 1..Len(gens) : Outstanding(j) => Draining(j)

SingleStream ==
  endpoint \in {"stream", "mock_llm_stream"} /\ Len(gens) = 1

\* a terminal event of the SSE stream: the is_complete chunk or an error event
TerminalEvent(e) ==
  e.event = "error" \/ (e.event = "chunk" /\ e.data.is_complete)

LastEvent ==
  events[Len(events)]

\* C7: in the event stream of a single-model streaming run a terminal event
\* is always the last event, and a finished run has one: the error event when
\* the model's stream raised, the is_complete chunk otherwise.
C7_OneTerminalEventLast ==
  (endpoint = "stream" /\ Len(gens) = 1) =>
    /\ \A k \in 1..Len(events) : TerminalEvent(events[k]) => k = Len(events)
    /\ status = "done" =>
         /\ events # <<>>
         /\ IF Failed(1) THEN LastEvent.event = "error"
            ELSE LastEvent.event = "chunk" /\ LastEvent.data.is_complete

C7_Witness ==
  /\ endpoint = "stream" /\ status = "done"
  /\ Len(events) > 1
  /\ LastEvent.event = "chunk" /\ LastEvent.data.is_complete

TerminalChunks ==
  {k \in 1..Len(chunks) : chunks[k].is_complete}

\* C8 as stated: every finished per-model stream has emitted exactly one
\* terminal chunk, also when the call failed.
C8_OneTerminalChunkAlways ==
  (SingleStream /\ status = "done") => Cardinality(TerminalChunks) = 1

\* C8 as amended: a stream that does not fail emits exactly one terminal
\* chunk, as its last chunk; a stream that fails emits no chunk at all, and
\* its failure is carried by the single event of kind "error" of the SSE
\* stream (by the exception, for a direct caller).
C8_TerminalChunkUnlessFailed ==
  SingleStream =>
    /\ Cardinality(TerminalChunks) <= 1
    /\ gens[1].pc \in {"completed", "exhausted"} =>
         TerminalChunks = {Len(chunks)}
    /\ Failed(1) =>
         /\ chunks = <<>>
         /\ endpoint = "stream" =>
              /\ Len(events) = 1
              /\ events[1].event = "error"
              /\ events[1].data.llm_id = llm_ids[1]
         /\ endpoint = "mock_llm_stream" =>
              events = <<>> /\ raised = gens[1].exc

C8_Witness ==
  endpoint = "stream" /\ status = "done" /\ FailedSimulated(1) /\ Len(events) = 1

\* C9: the chunk ids of a stream are 1, 2, 3, ... in the order of emission,
\* and the terminal chunk carries n + 1, n being the number of text chunks
\* emitted before it.
C9_ChunkIdsSequential ==
  SingleStream =>
    \A k \in 1..Len(chunks) :
      /\ chunks[k].chunk_id = k
      /\ chunks[k].is_complete =>
           chunks[k].chunk_id =
             Cardinality({m \in 1..(k - 1) : ~chunks[m].is_complete}) + 1

C9_Witness ==
  /\ SingleStream /\ Len(chunks) > 30
  /\ chunks[Len(chunks)].is_complete
  /\ chunks[Len(chunks)].chunk_id = Len(gens[1].response_text) + 1

\* C10: a chunk has empty text exactly if it is the terminal chunk; a
\* non-terminal chunk carries the one character of the response at its
\* position, the terminal chunk comes after the whole response.
C10_EmptyTextIffTerminal ==
  SingleStream =>
    \A k \in 1..Len(chunks) :
      /\ (chunks[k].text = <<>>) <=> chunks[k].is_complete
      /\ ~chunks[k].is_complete =>
           /\ Len(chunks[k].text) = 1
           /\ k <= Len(gens[1].response_text)
           /\ chunks[k].text[1] = gens[1].response_text[k]
      /\ chunks[k].is_complete => k = Len(gens[1].response_text) + 1

C10_Witness ==
  /\ SingleStream /\ status = "done" /\ Len(chunks) > 1
  /\ chunks[1].text = <<gens[1].response_text[1]>>
  /\ chunks[Len(chunks)].text = <<>>

CompletionReturned ==
  /\ endpoint \in {"completion_batch", "batch_mock_llm_completion"}
  /\ status = "done"
  /\ tasks # <<>>
  /\ \A j \in 1..Len(tasks) : tasks[j].pc = "returned"

\* C5: a batch completion that returns a result returns one entry per
\* requested model id, entry i being the result of the i-th requested id,
\* whatever the order in which the calls finished.
C5_ResultsInRequestOrder ==
  CompletionReturned =>
    /\ Len(result) = Len(llm_ids)
    /\ \A i \in 1..Len(llm_ids) :
         /\ result[i].llm_id = llm_ids[i]
         /\ result[i].content = tasks[i].content

\* a result returned after the calls finished in another order than requested
C5_Witness ==
  /\ CompletionReturned
  /\ Len(result) = 2
  /\ done_order = <<2, 1>>
  /\ result[1].llm_id = llm_ids[1] /\ llm_ids[1] # llm_ids[2]

\* C6: a validated batch completion in which a model failed with a simulated
\* error while a sibling did not fail (and nothing else went wrong) is
\* answered with status 200 and one entry per requested model.
C6_ErrorsEmbeddedPerItem ==
  ( /\ endpoint = "completion_batch" /\ status = "done" /\ tasks # <<>>
    /\ \E i \in 1..Len(tasks) : tasks[i].pc = "raised"
    /\ \E j \in 1..Len(tasks) : tasks[j].pc # "raised"
    /\ \A i \in 1..Len(tasks) :
         tasks[i].pc = "raised" => tasks[i].exc.type \in SimulatedErrors )
  => (http_status = 200 /\ Len(result) = Len(llm_ids))

(***************************************************************************)
(* Properties of batch validation                                          *)
(***************************************************************************)
\* C11: in a batch completion whose list holds an id that is not configured,
\* no per-model call for a configured id has been started: none has drawn
\* its simulated error or generated a response, at any point of the request.
C11_UnknownIdNothingStarted ==
  ( /\ endpoint \in {"completion_batch", "batch_mock_llm_completion"}
    /\ \E i \in Positions : llm_ids[i] \notin DOMAIN RESPONSE_LENGTHS )
  => \A j \in 1..Len(tasks) :
       llm_ids[j] \in DOMAIN RESPONSE_LENGTHS =>
         ~tasks[j].rolled /\ ~tasks[j].generated

(***************************************************************************)
(* Single-model completion: POST /api/chat/completion and a direct call of *)
(* mock_llm_completion                                                     *)
(***************************************************************************)
\* the status code chat_completion answers with when the call raised exc
ChatCompletionStatus(exc) ==
  CASE exc.type = "ValueError" -> 400
    [] exc.type = "RateLimitError" -> 429
    [] exc.type = "LLMTimeoutError" -> 408
    [] exc.type = "LLMServiceError" -> 503
    [] OTHER -> 500

\* POST /api/chat/completion with body {prompt: p, llm_id: id, delay: d}; the
\* body is kept as it was sent when the request model refuses it
chat_completion(id, p, d) ==
  /\ status = "idle"
  /\ endpoint' = "completion"
  /\ llm_ids' = <<id>>
  /\ delay' = d
  /\ IF ChatRequestValid(id, p, d)
       THEN /\ prompt' = Strip(p)
            /\ tasks' = <<NewTask(id)>>
            /\ status' = "awaiting"
            /\ UNCHANGED http_status
       ELSE /\ prompt' = p
            /\ status' = "done"
            /\ http_status' = 422
            /\ UNCHANGED tasks
  /\ UNCHANGED <<rates, streamVars, raised, done_order, result, detail,
                 liveVars, probe, peers>>

\* await mock_llm_completion(id, p, d, config)
call_mock_llm_completion(id, p, d, cfg) ==
  /\ status = "idle"
  /\ endpoint' = "mock_llm_completion"
  /\ llm_ids' = <<id>>
  /\ prompt' = p
  /\ delay' = d
  /\ rates' = cfg
  /\ tasks' = <<NewTask(id)>>
  /\ status' = "awaiting"
  /\ UNCHANGED <<http_status, streamVars, raised, done_order, result, detail,
                 liveVars, probe, peers>>

\* the awaited call raised: the handler turns the exception into an
\* HTTPException, a direct caller gets the exception itself
CompletionRaises ==
  /\ status = "awaiting"
  /\ tasks[1].pc = "raised"
  /\ IF endpoint = "completion"
       THEN /\ http_status' = ChatCompletionStatus(tasks[1].exc)
            /\ detail' = IF ChatCompletionStatus(tasks[1].exc) = 500
                           THEN <<"Internal server error">>
                         ELSE tasks[1].exc.message
            /\ UNCHANGED raised
       ELSE /\ raised' = tasks[1].exc
            /\ UNCHANGED <<http_status, detail>>
  /\ status' = "done"
  /\ UNCHANGED <<reqVars, streamVars, tasks, done_order, result, liveVars, probe, peers>>

\* the awaited call returned its dict: the handler answers with ChatResponse
CompletionReturns ==
  /\ status = "awaiting"
  /\ tasks[1].pc = "returned"
  /\ result' = <<CompletionResult(tasks[1])>>
  /\ http_status' = IF endpoint = "completion" THEN 200 ELSE http_status
  /\ status' = "done"
  /\ UNCHANGED <<reqVars, streamVars, raised, tasks, done_order, detail,
                 liveVars, probe, peers>>

NextCompletion ==
  \/ \E id \in LlmIdInputs, p \in Prompts, d \in Delays : chat_completion(id, p, d)
  \/ \E id \in LlmIdInputs, p \in Prompts, d \in Delays, cfg \in Configs :
       call_mock_llm_completion(id, p, d, cfg)
  \/ \E i \in 1..Len(tasks) : TaskRun(i)
  \/ \E i \in 1..Len(tasks) : TaskWake(i)
  \/ CompletionRaises
  \/ CompletionReturns

SpecCompletion ==
  Init /\ [][NextCompletion]_vars

\* the single-model operations of the mock service, streaming and completion
NextMock ==
  NextStream \/ NextCompletion

SpecMock ==
  Init /\ [][NextMock]_vars

(***************************************************************************)
(* Properties of the single-model calls                                    *)
(***************************************************************************)
\* the call in progress was given an empty or whitespace-only prompt or an
\* id that is not configured
InvalidInputs ==
  /\ llm_ids # <<>>
  /\ Strip(prompt) = <<>> \/ llm_ids[1] \notin DOMAIN RESPONSE_LENGTHS

\* C12: a direct call of mock_llm_stream or mock_llm_completion with an empty
\* or whitespace-only prompt or an unconfigured id never draws the simulated
\* error, never generates a response and never yields a chunk or returns a
\* result, and ends with ValueError, whatever the configured error rates.
C12_RejectedBeforeDraw ==
  /\ ( endpoint = "mock_llm_stream" /\ InvalidInputs ) =>
       /\ \A i \in 1..Len(gens) : ~gens[i].rolled /\ ~gens[i].generated
       /\ chunks = <<>>
       /\ status = "done" => raised.type = "ValueError"
  /\ ( endpoint = "mock_llm_completion" /\ InvalidInputs ) =>
       /\ \A i \in 1..Len(tasks) : ~tasks[i].rolled /\ ~tasks[i].generated
       /\ result = <<>>
       /\ status = "done" => raised.type = "ValueError"

\* a whitespace-only prompt was refused by mock_llm_stream under a
\* configuration that turns every draw into a rate-limit error
C12_Witness ==
  /\ endpoint = "mock_llm_stream"
  /\ status = "done"
  /\ prompt = <<" ">>
  /\ llm_ids[1] \in DOMAIN RESPONSE_LENGTHS
  /\ rates.rate_limit = RandScale
  /\ raised.type = "ValueError"
  /\ ~gens[1].rolled

\* C14: an answered POST /api/chat/completion has status 400 when the prompt
\* is empty or the id is not configured, 429, 408 and 503 when the call
\* raised a rate-limit, timeout or service error, 500 when it raised
\* anything else, and 200 when it returned (requests with a delay out of
\* range are left aside).
C14_FailureStatusMap ==
  ( endpoint = "completion" /\ status = "done" /\ DelayValid(delay) ) =>
    http_status =
      IF InvalidInputs THEN 400
      ELSE IF tasks[1].pc = "returned" THEN 200
      ELSE CASE tasks[1].exc.type = "ValueError" -> 400
             [] tasks[1].exc.type = "RateLimitError" -> 429
             [] tasks[1].exc.type = "LLMTimeoutError" -> 408
             [] tasks[1].exc.type = "LLMServiceError" -> 503
             [] OTHER -> 500

(***************************************************************************)
(* The live path: model registry, client factory, get_chat_completion,     *)
(* get_batch_chat_completion and the /api/v2/chat handlers                 *)
(***************************************************************************)
\* Python's None where a string or an object is expected
None ==
  <<"None">>

VALID_LLM_IDS ==
  {AVAILABLE_LLMS[k].llm_id : k \in 1..Len(AVAILABLE_LLMS)}

\* the value get_llm_info returns for an id that is not registered (None)
NoLLMInfo ==
  [llm_id |-> "None", api_provider |-> "None", reasoning_model |-> FALSE]

\* the first entry of the list with this id, or None
get_llm_info(llm_id) ==
  IF \E k \in 1..Len(registry) : registry[k].llm_id = llm_id
    THEN registry[CHOOSE k \in 1..Len(registry) :
                    /\ registry[k].llm_id = llm_id
                    /\ \A j \in 1..(k - 1) : registry[j].llm_id # llm_id]
  ELSE NoLLMInfo

\* the class of the client the factory builds, None for any other provider
create_async_llm_client(api_provider) ==
  IF api_provider = "Azure OpenAI" THEN <<"AsyncAzureOpenAI">>
  ELSE IF api_provider = "OpenRouter" THEN <<"AsyncOpenAI">>
  ELSE None

\* one model/provider selection of a live request
LLMSelection(llm_id, api_provider) ==
  [llm_id |-> llm_id, api_provider |-> api_provider]

\* the model ids and providers live requests are made with
LiveIdInputs ==
  {"gpt-5-nano", "gpt-4.1", "x-ai/grok-4.1-fast:free", "unknown-model"}

ProviderInputs ==
  {"Azure OpenAI", "OpenRouter", "Bedrock"}

LivePrompts ==
  {<<"h", "e", "l", "l", "o">>, <<" ">>}

\* the selections batches are made of
BatchSelections ==
  {LLMSelection("gpt-5-nano", "Azure OpenAI"),
   LLMSelection("gpt-4.1", "Azure OpenAI"),
   LLMSelection("gpt-4.1", "Bedrock"),
   LLMSelection("unknown-model", "OpenRouter")}

LiveBatchInputs ==
  SeqsUpTo(BatchSelections, MaxBatch)

\* what the provider does with a request through the given API: it answers
\* with a text, with an empty text, with no content at all (chat completions
\* only: message.content is optional), or the call raises
ProviderOutcomes(api) ==
  {[kind |-> "content", content |-> <<"Paris.">>, exc |-> NoExc],
   [kind |-> "content", content |-> <<>>, exc |-> NoExc],
   [kind |-> "raise", content |-> <<>>,
    exc |-> Exc("APITimeoutError", <<"Request timed out.">>)]}
  \cup (IF api = "chat.completions.create"
          THEN {[kind |-> "content", content |-> None, exc |-> NoExc]}
        ELSE {})

\* ChatResponse of models/schema.py
LiveResponse(llm_id, content, error) ==
  [llm_id |-> llm_id, content |-> content, error |-> error]

\* the API get_chat_completion calls for the model: the Responses API for a
\* reasoning model, Chat Completions otherwise (also for an unknown id)
ApiOf(llm_id) ==
  IF get_llm_info(llm_id) # NoLLMInfo /\ get_llm_info(llm_id).reasoning_model
    THEN "responses.parse"
  ELSE "chat.completions.create"

\* the except clause of get_chat_completion
ErrorResponse(llm_id, exc) ==
  LiveResponse(llm_id, <<>>, <<"Failed to generate response: ">> \o exc.message)

\* the value of the try block for the outcome o of the provider call: the
\* response built from the content, or the error response when the call
\* raised or ChatResponse refuses a content that is not a string
TryResult(llm_id, o) ==
  IF o.kind = "raise" THEN ErrorResponse(llm_id, o.exc)
  ELSE IF o.content = None
    THEN ErrorResponse(llm_id, Exc("ValidationError",
                                   <<"content: Input should be a valid string">>))
  ELSE LiveResponse(llm_id, o.content, None)

\* a get_chat_completion coroutine that has not run yet
NewCall(sel) ==
  [llm_id |-> sel.llm_id, api_provider |-> sel.api_provider, pc |-> "pending",
   client |-> 0, api |-> "none", response |-> LiveResponse(sel.llm_id, <<>>, None),
   exc |-> NoExc]

\* the prompt check of the v2 request models
LivePromptValid(p) ==
  Len(p) >= 1 /\ Strip(p) # <<>>

\* BatchChatRequest of the v2 API: a valid prompt and at least one selection
LiveBatchRequestValid(sel, p) ==
  LivePromptValid(p) /\ Len(sel) >= 1

\* the checks of the v2 handlers before the adapter is called: the status
\* of the HTTPException raised, or 0 when the selections pass
SelectionError(sel) ==
  IF \E i \in 1..Len(sel) : sel[i].llm_id \notin VALID_LLM_IDS THEN 400
  ELSE IF \E i \in 1..Len(sel) : get_llm_info(sel[i].llm_id) = NoLLMInfo THEN 404
  ELSE IF \E i \in 1..Len(sel) :
            sel[i].api_provider # get_llm_info(sel[i].llm_id).api_provider
    THEN 400
  ELSE 0

IsLiveHttp ==
  endpoint \in {"v2_completion", "v2_completion_batch"}

IsLiveBatch ==
  endpoint \in {"v2_completion_batch", "get_batch_chat_completion"}

\* a live request: refused by the request model (422) or by the handler's
\* checks, else one call per selection is created
LiveRequest(ep, sel, p, valid) ==
  /\ status = "idle"
  /\ endpoint' = ep
  /\ llms' = sel
  /\ IF ~valid
       THEN /\ prompt' = p
            /\ http_status' = 422
            /\ status' = "done"
            /\ UNCHANGED calls
     ELSE IF SelectionError(sel) # 0
       THEN /\ prompt' = Strip(p)
            /\ http_status' = SelectionError(sel)
            /\ status' = "done"
            /\ UNCHANGED calls
     ELSE /\ prompt' = Strip(p)
          /\ calls' = [i \in 1..Len(sel) |-> NewCall(sel[i])]
          /\ status' = "awaiting"
          /\ UNCHANGED http_status
  /\ UNCHANGED <<llm_ids, delay, rates, streamVars, raised, compVars, clients,
                 registry, probe, peers>>

\* POST /api/v2/chat/completion
v2_chat_completion(id, provider, p) ==
  LiveRequest("v2_completion", <<LLMSelection(id, provider)>>, p,
              LivePromptValid(p))

\* POST /api/v2/chat/completion/batch
v2_batch_chat_completion(sel, p) ==
  LiveRequest("v2_completion_batch", sel, p, LiveBatchRequestValid(sel, p))

\* a direct call of the adapter: nothing is checked before the calls start
DirectLiveCall(ep, sel, p) ==
  /\ status = "idle"
  /\ endpoint' = ep
  /\ llms' = sel
  /\ prompt' = p
  /\ calls' = [i \in 1..Len(sel) |-> NewCall(sel[i])]
  /\ status' = "awaiting"
  /\ UNCHANGED <<llm_ids, delay, rates, http_status, streamVars, raised,
                 compVars, clients, registry, probe, peers>>

\* await get_chat_completion(id, provider, p)
call_get_chat_completion(id, provider, p) ==
  DirectLiveCall("get_chat_completion", <<LLMSelection(id, provider)>>, p)

\* await get_batch_chat_completion(sel, p)
call_get_batch_chat_completion(sel, p) ==
  DirectLiveCall("get_batch_chat_completion", sel, p)

\* a finally clause that closes the client only when the try block got a
\* response without error
CloseInFinally_OnSuccessOnly(c) ==
  IF c.response.error = None THEN 1 ELSE 0

\* the number of times the finally clause closes the client of call c
CloseInFinally(c) ==
  1

\* the first step of call i (the calls of a batch start in list order): the
\* client is created; without a client the attribute access in the try block
\* fails, the except clause builds the error response and the finally clause
\* raises AttributeError on None.close; with a client the provider is called
LiveCallStart(i) ==
  /\ status = "awaiting"
  /\ i \in 1..Len(calls)
  /\ calls[i].pc = "pending"
  /\ \A j \in 1..(i - 1) : calls[j].pc # "pending"
  /\ LET c == calls[i]
         client == create_async_llm_client(c.api_provider)
     IN  IF client = None
           THEN /\ calls' = [calls EXCEPT
                    ![i].pc = "raised",
                    ![i].response = ErrorResponse(c.llm_id,
                        Exc("AttributeError",
                            <<"'NoneType' object has no attribute">>)),
                    ![i].exc = Exc("AttributeError",
                        <<"'NoneType' object has no attribute 'close'">>)]
                /\ done_order' = Append(done_order, i)
                /\ UNCHANGED clients
         ELSE /\ clients' = Append(clients, [kind |-> client, owner |-> i,
                                             closes |-> 0])
              /\ calls' = [calls EXCEPT ![i].pc = "requesting",
                                        ![i].client = Len(clients) + 1,
                                        ![i].api = ApiOf(c.llm_id)]
              /\ UNCHANGED done_order
  /\ UNCHANGED <<reqVars, status, http_status, streamVars, raised, tasks,
                 result, detail, llms, registry, probe, peers>>

\* the provider call of call i ends (every call of the batch has started by
\* then): the try block returns its response or the except clause its error
\* response, and the finally clause awaits client.close()
LiveCallResponds(i) ==
  /\ i \in 1..Len(calls)
  /\ calls[i].pc = "requesting"
  /\ \A j \in 1..Len(calls) : calls[j].pc # "pending"
  /\ \E o \in ProviderOutcomes(calls[i].api) :
       calls' = [calls EXCEPT ![i].pc = "closing",
                              ![i].response = TryResult(calls[i].llm_id, o)]
  /\ UNCHANGED <<reqVars, status, http_status, streamVars, raised, compVars,
                 llms, clients, registry, probe, peers>>

\* client.close() of call i is done: the call returns its response
LiveCallCloses(i) ==
  /\ i \in 1..Len(calls)
  /\ calls[i].pc = "closing"
  /\ clients' = [clients EXCEPT ![calls[i].client].closes =
                                   @ + CloseInFinally(calls[i])]
  /\ calls' = [calls EXCEPT ![i].pc = "returned"]
  /\ done_order' = Append(done_order, i)
  /\ UNCHANGED <<reqVars, status, http_status, streamVars, raised, tasks,
                 result, detail, llms, registry, probe, peers>>

\* the list get_batch_chat_completion returns: the responses in list order
LiveResults ==
  [i \in 1..Len(calls) |-> calls[i].response]

\* the request ends with a result: the response of the single call, or the
\* list gather returns when every call has returned (at once for no call)
LiveReturns ==
  /\ status = "awaiting"
  /\ endpoint \in {"v2_completion", "v2_completion_batch",
                   "get_chat_completion", "get_batch_chat_completion"}
  /\ \A j \in 1..Len(calls) : calls[j].pc = "returned"
  /\ result' = LiveResults
  /\ http_status' = IF IsLiveHttp THEN 200 ELSE http_status
  /\ status' = "done"
  /\ UNCHANGED <<reqVars, streamVars, raised, tasks, done_order, detail,
                 liveVars, probe, peers>>

\* the exception the request ends with: that of the first call that raised
FirstLiveRaised ==
  CHOOSE i \in 1..Len(calls) :
    /\ calls[i].pc = "raised"
    /\ \A j \in 1..(i - 1) : calls[j].pc # "raised"

\* a call raised: gather propagates the exception at once (the other calls
\* keep running); a handler lets it through to the framework, which answers
\* 500
LiveRaises ==
  /\ status = "awaiting"
  /\ endpoint \in {"v2_completion", "v2_completion_batch",
                   "get_chat_completion", "get_batch_chat_completion"}
  /\ \A j \in 1..Len(calls) : calls[j].pc # "pending"
  /\ \E j \in 1..Len(calls) : calls[j].pc = "raised"
  /\ IF IsLiveHttp
       THEN /\ http_status' = 500
            /\ UNCHANGED raised
       ELSE /\ raised' = calls[FirstLiveRaised].exc
            /\ UNCHANGED http_status
  /\ status' = "done"
  /\ UNCHANGED <<reqVars, streamVars, compVars, liveVars, probe, peers>>

NextLive ==
  \/ \E id \in LiveIdInputs, pr \in ProviderInputs, p \in LivePrompts :
       v2_chat_completion(id, pr, p)
  \/ \E sel \in LiveBatchInputs, p \in LivePrompts : v2_batch_chat_completion(sel, p)
  \/ \E id \in LiveIdInputs, pr \in ProviderInputs, p \in LivePrompts :
       call_get_chat_completion(id, pr, p)
  \/ \E sel \in LiveBatchInputs, p \in LivePrompts :
       call_get_batch_chat_completion(sel, p)
  \/ \E i \in 1..Len(calls) : LiveCallStart(i)
  \/ \E i \in 1..Len(calls) : LiveCallResponds(i)
  \/ \E i \in 1..Len(calls) : LiveCallCloses(i)
  \/ LiveReturns
  \/ LiveRaises

SpecLive ==
  Init /\ [][NextLive]_vars

(***************************************************************************)
(* Properties of the live path                                             *)
(***************************************************************************)
\* the selections name some model id more than once
DuplicateSelection(sel) ==
  \E i, j \in 1..Len(sel) : i # j /\ sel[i].llm_id = sel[j].llm_id

\* C13: a POST /api/v2/chat/completion/batch whose list names the same model
\* id twice is refused as a whole: no call is created for it, no client is
\* built, and it is answered with a client error.
C13_DuplicatesRejected ==
  ( endpoint = "v2_completion_batch" /\ DuplicateSelection(llms) ) =>
    /\ calls = <<>>
    /\ clients = <<>>
    /\ status = "done" /\ http_status \in 400..499

\* C15: no call of get_chat_completion ends with an exception, and a live
\* batch that has ended has returned one result per requested selection.
C15_NeverPropagates ==
  /\ \A i \in 1..Len(calls) : calls[i].pc # "raised"
  /\ ( IsLiveBatch /\ status = "done" /\ calls # <<>> ) =>
       Len(result) = Len(llms)

\* the live batch has returned its list of results
LiveBatchReturned ==
  /\ IsLiveBatch
  /\ status = "done"
  /\ calls # <<>>
  /\ \A i \in 1..Len(calls) : calls[i].pc = "returned"

\* C16: every client belongs to exactly one call; it is not closed while its
\* call is still using it, it has been closed exactly once when its call has
\* returned (with a content or with an error response), it is never closed
\* twice, and when a live batch has returned every client is closed.
C16_ClientClosedOnce ==
  /\ \A k \in 1..Len(clients) :
       /\ clients[k].closes <= 1
       /\ clients[k].owner \in 1..Len(calls)
       /\ calls[clients[k].owner].client = k
  /\ \A i, j \in 1..Len(calls) :
       (calls[i].client # 0 /\ calls[i].client = calls[j].client) => i = j
  /\ \A i \in 1..Len(calls) :
       /\ calls[i].pc \in {"requesting", "closing"} =>
            calls[i].client # 0 /\ clients[calls[i].client].closes = 0
       /\ calls[i].pc = "returned" =>
            calls[i].client # 0 /\ clients[calls[i].client].closes = 1
  /\ LiveBatchReturned => \A k \in 1..Len(clients) : clients[k].closes = 1

\* a batch of two calls has returned, one with a content and one with an
\* error response, and both clients are closed
C16_Witness ==
  /\ LiveBatchReturned
  /\ Len(calls) = 2
  /\ result[1].error = None /\ result[1].content # <<>>
  /\ result[2].error # None
  /\ Len(clients) = 2
  /\ clients[1].closes = 1 /\ clients[2].closes = 1

\* C17: the result of an answered POST /api/v2/chat/completion has either a
\* non-empty content and no error, or an error and an empty content.
C17_ContentXorError ==
  ( endpoint = "v2_completion" /\ status = "done" /\ http_status = 200 ) =>
    \/ result[1].content # <<>> /\ result[1].error = None
    \/ result[1].content = <<>> /\ result[1].error # None

(***************************************************************************)
(* Properties of the concurrent per-model calls                            *)
(***************************************************************************)
\* C18: when a batch completion has ended, by returning its results or by
\* failing with the exception of one call, no per-model task of it is still
\* pending or asleep.
C18_NoTaskOutlivesRequest ==
  ( endpoint \in {"completion_batch", "batch_mock_llm_completion"}
    /\ status = "done" ) =>
    \A j \in 1..Len(tasks) : tasks[j].pc \in {"raised", "returned"}

\* C19: in a batch stream no model's call waits for another model's call to
\* finish before it starts: once a stream has yielded its completion signal
\* every stream of the batch has begun to run.
C19_AllStartedTogether ==
  IsBatch =>
    \A i, j \in 1..Len(gens) :
      gens[i].pc \in {"completed", "exhausted"} => gens[j].pc # "created"

(***************************************************************************)
(* The error draw on its own: _simulate_errors for every draw and for      *)
(* several configurations                                                  *)
(***************************************************************************)
\* the error rates examined: the default ones, a rate limit of 1.0, no
\* errors at all, and three bands that fill [0, 1)
DrawConfigs ==
  Configs \cup {[rate_limit |-> 50, timeout |-> 30, service_error |-> 20]}

\* await _simulate_errors(config) with random.random() returning rand
SimulateErrors(cfg, rand) ==
  /\ probe' = [fn |-> "_simulate_errors", rates |-> cfg, rand |-> rand,
               out |-> simulate_errors(cfg, rand)]
  /\ UNCHANGED <<reqVars, status, http_status, streamVars, raised, compVars,
                 liveVars, peers>>

NextErrorDraw ==
  \E cfg \in DrawConfigs, rand \in 0..(RandScale - 1) : SimulateErrors(cfg, rand)

SpecErrorDraw ==
  Init /\ [][NextErrorDraw]_vars

\* C20: the draw r gives a rate-limit error exactly when r is below the
\* rate-limit rate, a timeout exactly when r is in the next band of the
\* width of the timeout rate, a service error exactly when r is in the band
\* after that, and no error exactly when r is at or above the sum of the
\* three rates; a rate-limit rate of 1.0 always gives a rate-limit error and
\* three rates of 0 never give an error.
C20_ErrorDrawBands ==
  probe.fn = "_simulate_errors" =>
    LET r == probe.rand
        a == probe.rates.rate_limit
        b == a + probe.rates.timeout
        c == b + probe.rates.service_error
    IN  /\ (r < a) <=> (probe.out.type = "RateLimitError")
        /\ (a <= r /\ r < b) <=> (probe.out.type = "LLMTimeoutError")
        /\ (b <= r /\ r < c) <=> (probe.out.type = "LLMServiceError")
        /\ (c <= r) <=> (probe.out = NoExc)
        /\ a = RandScale => probe.out.type = "RateLimitError"
        /\ c = 0 => probe.out = NoExc

\* a draw inside the timeout band of the default rates gave a timeout
C20_Witness ==
  /\ probe.fn = "_simulate_errors"
  /\ probe.rates = ERROR_RATES
  /\ probe.rand = ERROR_RATES.rate_limit + 1
  /\ probe.out.type = "LLMTimeoutError"

(***************************************************************************)
(* Properties of the simulated errors and of the request validation        *)
(***************************************************************************)
\* C21: a single-model stream that has failed with a simulated error has
\* yielded no chunk (so no simulated error follows a chunk), and a
\* single-model completion that has failed with a simulated error has no
\* content and returns no result.
C21_SimulatedErrorBeforeOutput ==
  /\ ( endpoint \in {"stream", "mock_llm_stream"} ) =>
       \A i \in 1..Len(gens) :
         gens[i].exc.type \in SimulatedErrors =>
           /\ chunks = <<>>
           /\ gens[i].chunk_id = 0
           /\ \A k \in 1..Len(events) : events[k].event # "chunk"
  /\ ( endpoint \in {"completion", "mock_llm_completion"} ) =>
       \A i \in 1..Len(tasks) :
         tasks[i].exc.type \in SimulatedErrors =>
           tasks[i].content = <<>> /\ result = <<>>

\* POST /api/chat/stream ended with a simulated error as its only event
C21_Witness ==
  /\ endpoint = "stream"
  /\ status = "done"
  /\ gens # <<>>
  /\ gens[1].exc.type \in SimulatedErrors
  /\ chunks = <<>>
  /\ Len(events) = 1
  /\ events[1].event = "error"

\* C22: POST /api/chat/stream with a non-empty prompt and a model id outside
\* 1..5 is answered with status 400 and a detail that starts with
\* 'Invalid LLM ID'.
C22_InvalidIdIs400 ==
  ( /\ endpoint = "stream"
    /\ Strip(prompt) # <<>>
    /\ llm_ids[1] \notin DOMAIN RESPONSE_LENGTHS
    /\ DelayValid(delay) )
  => /\ http_status = 400
     /\ detail # <<>>
     /\ detail[1] = "Invalid LLM ID: "

\* C23: POST /api/chat/stream/batch with a non-empty prompt and an empty list
\* of model ids is answered with status 400 and the detail 'At least one LLM
\* ID must be provided'.
C23_EmptyListIs400 ==
  ( /\ endpoint = "stream_batch"
    /\ Strip(prompt) # <<>>
    /\ llm_ids = <<>>
    /\ DelayValid(delay) )
  => /\ http_status = 400
     /\ detail = <<"At least one LLM ID must be provided">>

\* C24: a POST /api/chat/stream or POST /api/chat/completion whose prompt is
\* empty or whitespace-only is answered 422 at once, and nothing was started
\* for it: no stream, no call, no chunk, no event.
C24_EmptyPromptRejected ==
  ( /\ endpoint \in {"stream", "completion"}
    /\ Strip(prompt) = <<>> )
  => /\ http_status = 422
     /\ status = "done"
     /\ gens = <<>>
     /\ tasks = <<>>
     /\ chunks = <<>>
     /\ events = <<>>
     /\ result = <<>>

\* a whitespace-only prompt with a valid id and delay was refused by
\* POST /api/chat/stream
C24_Witness ==
  /\ endpoint = "stream"
  /\ prompt = <<" ">>
  /\ llm_ids = <<1>>
  /\ delay = DefaultDelay
  /\ http_status = 422
  /\ gens = <<>>

(***************************************************************************)
(* _generate_response on its own, for every target length of every model,  *)
(* next to the single-model streams                                        *)
(***************************************************************************)
\* the valid prompts responses are generated for: those of the streams and
\* one that selects the long "help" template
GeneratePrompts ==
  {p \in Prompts : Strip(p) # <<>>} \cup {<<"h", "e", "l", "p">>}

\* await _generate_response(id, p, config) as the only call of a run, with
\* random.randint returning target
GenerateResponse(id, p, target) ==
  /\ status = "idle"
  /\ status' = "done"
  /\ endpoint' = "_generate_response"
  /\ probe' = [fn |-> "_generate_response", llm_id |-> id, prompt |-> p,
               target |-> target, out |-> generate_response(id, p, target)]
  /\ UNCHANGED <<llm_ids, prompt, delay, rates, http_status, streamVars,
                 raised, compVars, liveVars, peers>>

NextLengths ==
  \/ NextStream
  \/ \E id \in DOMAIN RESPONSE_LENGTHS, p \in GeneratePrompts :
       \E target \in RESPONSE_LENGTHS[id][1]..RESPONSE_LENGTHS[id][2] :
         GenerateResponse(id, p, target)

SpecLengths ==
  Init /\ [][NextLengths]_vars

\* the number of text (non-terminal) chunks yielded so far
TextChunkCount ==
  Cardinality({k \in 1..Len(chunks) : ~chunks[k].is_complete})

\* C25: a response generated without an exception has exactly the drawn
\* target length, which lies in the model's [min, max] range; a single-model
\* stream that has finished has emitted as many text chunks as its response
\* has characters, between min and max of its model, hence more than any
\* stream of model 1 when it is of model 2 and fewer than any stream of
\* model 2 when it is of model 1.
C25_LengthWithinRange ==
  /\ ( probe.fn = "_generate_response" /\ probe.out.exc = NoExc ) =>
       /\ Len(probe.out.text) = probe.target
       /\ Len(probe.out.text) >= RESPONSE_LENGTHS[probe.llm_id][1]
       /\ Len(probe.out.text) <= RESPONSE_LENGTHS[probe.llm_id][2]
  /\ ( endpoint \in {"stream", "mock_llm_stream"} /\ gens # <<>>
       /\ gens[1].pc \in {"completed", "exhausted"} ) =>
       /\ TextChunkCount = Len(gens[1].response_text)
       /\ TextChunkCount >= RESPONSE_LENGTHS[gens[1].llm_id][1]
       /\ TextChunkCount <= RESPONSE_LENGTHS[gens[1].llm_id][2]
       /\ gens[1].llm_id = 2 => TextChunkCount > RESPONSE_LENGTHS[1][2]
       /\ gens[1].llm_id = 1 => TextChunkCount < RESPONSE_LENGTHS[2][1]

\* a stream of model 2 has finished with the shortest response of its range
C25_Witness ==
  /\ endpoint = "mock_llm_stream"
  /\ gens # <<>>
  /\ gens[1].llm_id = 2
  /\ gens[1].pc = "exhausted"
  /\ TextChunkCount = RESPONSE_LENGTHS[2][1]

(***************************************************************************)
(* The two batch functions of the mock service side by side                *)
(***************************************************************************)
NextBatchMock ==
  \/ NextBatchStream
  \/ NextBatchCompletion

SpecBatchMock ==
  Init /\ [][NextBatchMock]_vars

\* C26: a direct call of batch_mock_llm_stream or batch_mock_llm_completion
\* with an empty list of ids creates no per-model stream and no per-model
\* task, yields no chunk and returns no result, and when it has ended it has
\* raised ValueError('At least one LLM ID must be provided').
C26_EmptyListRefused ==
  ( /\ endpoint \in {"batch_mock_llm_stream", "batch_mock_llm_completion"}
    /\ llm_ids = <<>> ) =>
    /\ gens = <<>>
    /\ tasks = <<>>
    /\ chunks = <<>>
    /\ result = <<>>
    /\ status \in {"streaming", "called", "done"}
    /\ status = "done" =>
         raised = Exc("ValueError", <<"At least one LLM ID must be provided">>)

\* the merged stream of an empty list has been iterated and has raised
C26_Witness ==
  /\ endpoint = "batch_mock_llm_stream"
  /\ llm_ids = <<>>
  /\ status = "done"
  /\ raised.type = "ValueError"

(***************************************************************************)
(* Properties of the merged batch stream                                   *)
(***************************************************************************)
\* C27: every chunk of a merged batch stream carries a source_llm field, its
\* value equals the chunk's own llm_id and is one of the requested ids; the
\* chunk events of the batch endpoint carry the same tagged chunks.
C27_EveryChunkTagged ==
  IsBatch =>
    /\ \A k \in 1..Len(chunks) :
         /\ "source_llm" \in DOMAIN chunks[k]
         /\ chunks[k].source_llm = chunks[k].llm_id
         /\ \E i \in Positions : llm_ids[i] = chunks[k].source_llm
    /\ \A e \in 1..Len(events) :
         events[e].event = "chunk" =>
           /\ "source_llm" \in DOMAIN events[e].data
           /\ events[e].data.source_llm = events[e].data.llm_id
           /\ \E i \in Positions : llm_ids[i] = events[e].data.source_llm

\* the merged stream of two different models has delivered the terminal
\* chunk of the second
C27_Witness ==
  /\ IsBatch
  /\ Len(llm_ids) = 2
  /\ llm_ids[1] # llm_ids[2]
  /\ chunks # <<>>
  /\ chunks[Len(chunks)].is_complete
  /\ chunks[Len(chunks)].source_llm = llm_ids[2]

(***************************************************************************)
(* Properties of the response text                                         *)
(***************************************************************************)
\* "".join(chunk["text"] for chunk in chunks if not chunk["is_complete"])
FullResponse ==
  LET text_chunks == SelectSeq(chunks, LAMBDA c : ~c.is_complete)
  IN  [k \in 1..Len(text_chunks) |-> text_chunks[k].text]

PositionOf(id) ==
  CHOOSE i \in Positions : llm_ids[i] = id

\* C29: in a merged batch stream the stream at position j has not been
\* started before every stream at an earlier position is exhausted; for a
\* list of distinct ids, the first chunk comes from the model at position 1
\* and every chunk is followed by a chunk of the same model or, when it is a
\* terminal chunk, by a chunk of the model at the next position. Hence all
\* chunks of the model at position i, its terminal chunk included, precede
\* every chunk of the model at position j whenever i < j.
C29_DrainedInRequestOrder ==
  IsBatch =>
    /\ \A i, j \in 1..Len(gens) :
         (i < j /\ gens[j].pc # "created") => gens[i].pc = "exhausted"
    /\ Distinct(llm_ids) =>
         /\ chunks # <<>> => PositionOf(chunks[1].source_llm) = 1
         /\ \A k \in 1..(Len(chunks) - 1) :
              \/ /\ ~chunks[k].is_complete
                 /\ chunks[k + 1].source_llm = chunks[k].source_llm
              \/ /\ chunks[k].is_complete
                 /\ PositionOf(chunks[k + 1].source_llm)
                      = PositionOf(chunks[k].source_llm) + 1

\* the merged stream of two different models is delivering the text of the
\* second
C29_Witness ==
  /\ IsBatch
  /\ status = "streaming"
  /\ Len(llm_ids) = 2
  /\ llm_ids[1] # llm_ids[2]
  /\ cur = 2
  /\ chunks # <<>>
  /\ ~chunks[Len(chunks)].is_complete
  /\ chunks[Len(chunks)].source_llm = llm_ids[2]

\* the positions of the error events in the SSE stream
ErrorEvents ==
  {e \in 1..Len(events) : events[e].event # "chunk"}

\* C30: the event stream of POST /api/chat/stream/batch holds at most one
\* error event; when it holds one, that event is the last of the stream and
\* the stream has ended, so no chunk event follows it, every model before
\* the failing one was drained and no model after it was ever started.
C30_BatchErrorIsLast ==
  endpoint = "stream_batch" =>
    /\ Cardinality(ErrorEvents) <= 1
    /\ \A e \in ErrorEvents :
         /\ e = Len(events)
         /\ events[e].event = "error"
         /\ events[e].data.error = "batch_error"
         /\ status = "done"
         /\ \A i \in 1..Len(gens) :
              /\ gens[i].pc \in {"exhausted", "raised", "created"}
              /\ gens[i].pc = "raised" =>
                   \A j \in (i + 1)..Len(gens) : gens[j].pc = "created"

\* the second model of a batch has failed after the chunks of the first:
\* the error event closes the stream and the second model emitted nothing
C30_Witness ==
  /\ endpoint = "stream_batch"
  /\ Len(gens) = 2
  /\ gens[1].pc = "exhausted"
  /\ gens[2].pc = "raised"
  /\ Len(events) > 1
  /\ events[Len(events)].event = "error"

(***************************************************************************)
(* The merged batch stream against the single-model streams                *)
(***************************************************************************)
\* C31: in a batch stream in which no model has failed, the chunks tagged
\* with one model carry the sequence numbers 1, 2, 3, ... in order, only the
\* last of them can be the terminal chunk, and when the merged stream has
\* ended they are the characters of that model's response followed by its
\* terminal chunk, so that the merged stream holds one terminal chunk per
\* requested model.
C31_ModelSubsequenceIsSingleStream ==
  ( IsBatch /\ gens # <<>> /\ \A i \in 1..Len(gens) : gens[i].pc # "raised" ) =>
    \A i \in Positions :
      LET sub == SelectSeq(chunks, LAMBDA c : c.source_llm = llm_ids[i])
      IN  /\ \A k \in 1..Len(sub) :
                /\ sub[k].chunk_id = k
                /\ sub[k].llm_id = llm_ids[i]
                /\ sub[k].is_complete => k = Len(sub)
          /\ status = "done" =>
                /\ Len(sub) = Len(gens[i].response_text) + 1
                /\ sub[Len(sub)].is_complete
                /\ \A k \in 1..(Len(sub) - 1) :
                     sub[k].text = <<gens[i].response_text[k]>>

(***************************************************************************)
(* All streams, single and batch, with the steps the event loop and the    *)
(* iterating consumer are bound to take                                    *)
(***************************************************************************)
\* a step of a stream that was started: the first __anext__ of the merged
\* generator, or the next __anext__ of the stream the consumer is iterating
StreamSteps ==
  \/ BatchStart
  \/ \E i \in 1..Len(gens) : StreamStart(i)
  \/ \E i \in 1..Len(gens) : StreamChunk(i)
  \/ \E i \in 1..Len(gens) : StreamFinal(i)
  \/ \E i \in 1..Len(gens) : StreamStop(i)

NextStreams ==
  \/ \E id \in LlmIdInputs, p \in Prompts, d \in StreamDelays : stream_chat(id, p, d)
  \/ \E id \in LlmIdInputs, p \in Prompts, d \in StreamDelays, cfg \in Configs :
       call_mock_llm_stream(id, p, d, cfg)
  \/ \E ids \in BatchInputs, p \in BatchPrompts, d \in StreamDelays :
       stream_batch_chat(ids, p, d)
  \/ \E ids \in BatchInputs, p \in BatchPrompts, d \in StreamDelays :
       call_batch_mock_llm_stream(ids, p, d)
  \/ StreamSteps

\* every asyncio.sleep of a stream is finite (at most MAX_DELAY) and the
\* consumer (the SSE response, or an async for loop) asks for the next chunk
\* as soon as it got one: an enabled step of a started stream is taken
SpecStreamsFair ==
  Init /\ [][NextStreams]_vars /\ WF_vars(StreamSteps)

\* the largest number of chunks the streams of ids can emit: max_len + 1 for
\* every configured id
RECURSIVE MaxChunksOf(_)
MaxChunksOf(ids) ==
  IF ids = <<>> THEN 0
  ELSE (IF Head(ids) \in DOMAIN RESPONSE_LENGTHS
          THEN RESPONSE_LENGTHS[Head(ids)][2] + 1 ELSE 0)
       + MaxChunksOf(Tail(ids))

\* C32: a stream never emits more chunks than max_len + 1 of its model (a
\* batch stream never more than the sum of these over its models), and every
\* stream that was started ends, whatever prompt, delay, lengths and error
\* draws it runs with.
C32_EveryStreamEnds ==
  /\ [](Len(chunks) <= MaxChunksOf(llm_ids))
  /\ (status = "streaming") ~> (status = "done")

\* a batch stream over two models has ended after the largest number of
\* chunks its models allow
C32_Witness ==
  /\ IsBatch
  /\ status = "done"
  /\ Len(llm_ids) = 2
  /\ Len(chunks) = MaxChunksOf(llm_ids)

(***************************************************************************)
(* Properties of the reported failures                                     *)
(***************************************************************************)
\* C33: when a stream of a streaming endpoint has raised an exception that is
\* not one of the simulated errors, the error event sent to the client
\* carries one of the fixed generic messages and not the text of the
\* exception.
C33_InternalFailureGeneric ==
  endpoint \in {"stream", "stream_batch"} =>
    \A i \in 1..Len(gens) :
      ( gens[i].pc = "raised" /\ gens[i].exc.type \notin SimulatedErrors ) =>
        /\ events # <<>>
        /\ LastEvent.event = "error"
        /\ LastEvent.data.message \in {<<"An unexpected error occurred">>,
                                        <<"Internal server error">>}
        /\ LastEvent.data.message # gens[i].exc.message

(***************************************************************************)
(* Properties of the live adapter and of the registry                      *)
(***************************************************************************)
\* C34: every call of get_chat_completion that has got past its first step
\* has issued one provider call: the Responses API call when the registry
\* flags the model as a reasoning model, the Chat Completions call for any
\* other model, registered or not.
C34_OneCallByReasoningFlag ==
  \A i \in 1..Len(calls) :
    calls[i].pc # "pending" =>
      calls[i].api =
        IF \E k \in 1..Len(AVAILABLE_LLMS) :
             /\ AVAILABLE_LLMS[k].llm_id = calls[i].llm_id
             /\ AVAILABLE_LLMS[k].reasoning_model
          THEN "responses.parse"
        ELSE "chat.completions.create"

\* a handler that hands out the entries by removing them from the list
list_llms_Popping ==
  /\ status = "idle"
  /\ endpoint' = "v2_llms"
  /\ result' = registry
  /\ registry' = Tail(registry)
  /\ http_status' = 200
  /\ status' = "done"
  /\ UNCHANGED <<llm_ids, prompt, delay, rates, streamVars, raised, tasks,
                 done_order, detail, llms, calls, clients, probe, peers>>

\* GET /api/v2/chat/llms: the response holds the entries of the list
list_llms ==
  /\ status = "idle"
  /\ endpoint' = "v2_llms"
  /\ result' = registry
  /\ http_status' = 200
  /\ status' = "done"
  /\ UNCHANGED <<llm_ids, prompt, delay, rates, streamVars, raised, tasks,
                 done_order, detail, liveVars, probe, peers>>

NextRegistry ==
  \/ NextLive
  \/ list_llms

SpecRegistry ==
  Init /\ [][NextRegistry]_vars

NewPeer(kind, id, p, rand, target) ==
  [kind |-> kind, llm_id |-> id, prompt |-> p, delay |-> DefaultDelay,
   rand |-> rand, target |-> target, gen |-> NewGen(id), events |-> <<>>,
   status |-> "streaming"]

\* a chunk as the request's SSE generator sends it: batch_mock_llm_stream
\* tags it first
PeerEvent(r, chunk) ==
  ChunkEvent(IF r.kind = "stream_batch" THEN Tagged(chunk, r.llm_id) ELSE chunk)

\* the error event of the request's SSE generator
PeerErrorEvent(r, exc) ==
  IF r.kind = "stream" THEN SingleErrorEvent(exc, r.llm_id)
  ELSE BatchErrorEvent(exc)

\* the request after the next step of its generator: only local variables of
\* mock_llm_stream and of the SSE generator are read and written
PeerAdvance(r) ==
  LET g == r.gen
  IN  CASE g.pc = "created" ->
             LET e == StreamEntry(r.llm_id, r.prompt, r.delay, DefaultConfig,
                                  r.rand, r.target)
             IN  IF e.exc # NoExc
                   THEN [r EXCEPT !.gen.pc = "raised", !.gen.exc = e.exc,
                                  !.gen.rolled = e.rolled,
                                  !.gen.generated = e.generated,
                                  !.events = Append(@, PeerErrorEvent(r, e.exc)),
                                  !.status = "done"]
                 ELSE [r EXCEPT !.gen.pc = IF e.text = <<>> THEN "final"
                                           ELSE "sleep",
                                !.gen.response_text = e.text,
                                !.gen.rolled = e.rolled,
                                !.gen.generated = e.generated]
        [] g.pc = "sleep" ->
             [r EXCEPT !.events = Append(@, PeerEvent(r, TextChunk(g))),
                       !.gen.chunk_id = g.chunk_id + 1,
                       !.gen.pos = g.pos + 1,
                       !.gen.pc = IF g.pos + 1 < Len(g.response_text)
                                    THEN "sleep" ELSE "final"]
        [] g.pc = "final" ->
             [r EXCEPT !.events = Append(@, PeerEvent(r, CompletionChunk(g))),
                       !.gen.pc = "completed"]
        [] g.pc = "completed" ->
             [r EXCEPT !.gen.pc = "exhausted", !.status = "done"]
        [] OTHER -> r

\* two requests arrive; neither has run yet
PeerRequests(a, b) ==
  /\ status = "idle"
  /\ endpoint' = "concurrent_streams"
  /\ status' = "streaming"
  /\ peers' = <<a, b>>
  /\ UNCHANGED <<llm_ids, prompt, delay, rates, http_status, streamVars, raised,
                 compVars, liveVars, probe>>

\* a step that numbers the chunks with one counter for all requests
PeerStep_SharedChunkId(k) ==
  /\ endpoint = "concurrent_streams"
  /\ k \in 1..Len(peers)
  /\ peers[k].status = "streaming"
  /\ LET Count[j \in 0..Len(peers)] ==
           IF j = 0 THEN 0
           ELSE Count[j - 1]
                + Cardinality({e \in 1..Len(peers[j].events) :
                                 peers[j].events[e].event = "chunk"})
     IN  peers' = [peers EXCEPT
                     ![k] = PeerAdvance([peers[k] EXCEPT
                                           !.gen.chunk_id = Count[Len(peers)]])]
  /\ status' = IF \A j \in 1..Len(peers) : peers'[j].status = "done"
                 THEN "done" ELSE status
  /\ UNCHANGED <<reqVars, http_status, streamVars, raised, compVars, liveVars,
                 probe>>

\* the event loop runs the next step of request k
PeerStep(k) ==
  /\ endpoint = "concurrent_streams"
  /\ k \in 1..Len(peers)
  /\ peers[k].status = "streaming"
  /\ peers' = [peers EXCEPT ![k] = PeerAdvance(peers[k])]
  /\ status' = IF \A j \in 1..Len(peers) : peers'[j].status = "done"
                 THEN "done" ELSE status
  /\ UNCHANGED <<reqVars, http_status, streamVars, raised, compVars, liveVars,
                 probe>>

\* the requests are valid bodies for a single-model stream or for a batch
\* stream over one model, of model 1 or 2, with the draw of a rate-limit error
\* or of no error and the shortest responses of the model
NextConcurrent ==
  \/ \E ka, kb \in {"stream", "stream_batch"}, ia, ib \in {1, 2},
        pa, pb \in { <<"h", "e", "l", "l", "o">>, <<"c", "o", "d", "e">> },
        ra, rb \in {0, RandScale - 1} :
       \E ta \in RESPONSE_LENGTHS[ia][1]..(RESPONSE_LENGTHS[ia][1] + DrawSpread),
          tb \in RESPONSE_LENGTHS[ib][1]..(RESPONSE_LENGTHS[ib][1] + DrawSpread) :
         PeerRequests(NewPeer(ka, ia, pa, ra, ta), NewPeer(kb, ib, pb, rb, tb))
  \/ \E k \in 1..Len(peers) : PeerStep(k)

SpecConcurrent ==
  Init /\ [][NextConcurrent]_vars

\* the events the request's stream sends when the request is processed alone
\* with the same draws: the error event when the entry of mock_llm_stream
\* raises, else one chunk event per character of the response, numbered from
\* 1, and the completion chunk
AloneEvents(r) ==
  LET e == StreamEntry(r.llm_id, r.prompt, r.delay, DefaultConfig, r.rand,
                       r.target)
      n == Len(e.text)
  IN  IF e.exc # NoExc THEN <<PeerErrorEvent(r, e.exc)>>
      ELSE [j \in 1..(n + 1) |->
              PeerEvent(r, IF j <= n
                             THEN [chunk_id |-> j, text |-> <<e.text[j]>>,
                                   llm_id |-> r.llm_id, is_complete |-> FALSE]
                           ELSE [chunk_id |-> j, text |-> <<>>,
                                 llm_id |-> r.llm_id, is_complete |-> TRUE])]

ThinkingTime(id, p, d, target) ==
  /\ status = "idle"
  /\ status' = "done"
  /\ endpoint' = "processing_time"
  /\ probe' = [fn |-> "mock_llm_completion", llm_id |-> id, prompt |-> p,
               delay |-> d, target |-> target,
               out |-> CompletionEntry(id, p, d,
                        [rate_limit |-> 0, timeout |-> 0, service_error |-> 0],
                        0, target)]
  /\ UNCHANGED <<llm_ids, prompt, delay, rates, http_status, streamVars,
                 raised, compVars, liveVars, peers>>

\* the delays (in ms) are the smallest and the largest the request model
\* admits, the default, and two that only a direct caller can pass
NextThinkingTime ==
  \/ NextCompletion
  \/ \E id \in DOMAIN RESPONSE_LENGTHS, p \in GeneratePrompts,
        d \in {10, DefaultDelay, 1000, 5000, 60000} :
       \E target \in RESPONSE_LENGTHS[id][1]..RESPONSE_LENGTHS[id][2] :
         ThinkingTime(id, p, d, target)

SpecThinkingTime ==
  Init /\ [][NextThinkingTime]_vars

\* len(response_text) * (delay / 2), in ms
ProcessingTime(text, d) ==
  (Len(text) * d) \div 2

\* C37: the time a mock completion sleeps before it returns is the response
\* length times half the delay when that is at most 2 seconds, and 2 seconds
\* otherwise; it never exceeds 2 seconds.
C37_ThinkingTimeCapped ==
  /\ ( probe.fn = "mock_llm_completion" /\ probe.out.exc = NoExc ) =>
       /\ probe.out.sleep <= 2000
       /\ probe.out.sleep =
            IF ProcessingTime(probe.out.text, probe.delay) <= 2000
              THEN ProcessingTime(probe.out.text, probe.delay) ELSE 2000
  /\ \A i \in 1..Len(tasks) :
       tasks[i].pc \in {"sleeping", "returned"} =>
         /\ tasks[i].wake <= 2000
         /\ tasks[i].wake =
              IF ProcessingTime(tasks[i].content, delay) <= 2000
                THEN ProcessingTime(tasks[i].content, delay) ELSE 2000

\* a completion through POST /api/chat/completion has returned after a
\* thinking time that was cut down to the cap
C37_Witness ==
  /\ endpoint = "completion"
  /\ tasks # <<>>
  /\ tasks[1].pc = "returned"
  /\ ProcessingTime(tasks[1].content, delay) > 2000
  /\ tasks[1].wake = 2000
====
